---- MODULE Spec2Model ----
(***************************************************************************)
(* A model of terraform-provider-digitalocean:                             *)
(*   - digitalocean/app_spec.go: the expand/flatten mapping between the    *)
(*     Terraform configuration of an app spec and godo.AppSpec;            *)
(*   - digitalocean/resource_digitalocean_spaces_bucket_object_test.go:    *)
(*     the acceptance tests of the spaces bucket object resource, run      *)
(*     against a model of the resource and of the object store.            *)
(*                                                                         *)
(* Go values are represented as follows.                                   *)
(*   string, bool, int     a TLA+ string, boolean, integer                 *)
(*   *T (pointer)          <<>> for nil, <<v>> for a pointer to v          *)
(*   []T (slice)           [isNil |-> BOOLEAN, elems |-> sequence]: a nil  *)
(*                         slice and an empty slice are different values   *)
(*   []interface{}         a sequence; an element is a map or NilElem      *)
(*   map[string]interface{} a function on the set of keys that are present *)
(*   *schema.Set           a TLA+ set; List() orders it by hash code       *)
(***************************************************************************)
EXTENDS Integers, Sequences, FiniteSets, TLC

VARIABLES appPc, appIn, appFlat, appCfg, appSpec

appVars == <<appPc, appIn, appFlat, appCfg, appSpec>>

VARIABLES
    files,        \* the temporary files of the test: path -> bytes
    bucket,       \* the test's bucket in the object store
    objects,      \* the objects of that bucket: key -> <<>> or <<object>>
    tfBucket,     \* the bucket resource in the Terraform state
    tfObj,        \* digitalocean_spaces_bucket_object.object in the state
    nextVersion,  \* the next version ID the store hands out
    lastCall,     \* the fixture call of the last test step
    lastErr,      \* the errors of the last test step's apply
    obj,          \* the s3.GetObjectOutput the last step's check captured
    prevObj,      \* the one the step before it captured
    testPc,       \* "steps" while the test runs, "destroyed" after it
    finalState    \* the state handed to CheckDestroy

objVars == <<files, bucket, objects, tfBucket, tfObj, nextVersion, lastCall,
             lastErr, obj, prevObj, testPc, finalState>>

VARIABLES
    sweepPc,       \* position in testSweepS3BucketObjects
    sweepRegion,   \* its region argument
    sessionErr,    \* session.NewSession returned an error
    listErr,       \* the error of ListBuckets
    spaces,        \* output.Buckets, each bucket with its objects
    sweepI,        \* the bucket the loop is at
    sweepRet       \* what the sweep returned

sweepVars == <<sweepPc, sweepRegion, sessionErr, listErr, spaces, sweepI, sweepRet>>

VARIABLES
    parPc,         \* position of each parallel test
    parInt,        \* the random integer of each parallel test
    parBuckets,    \* the buckets of the account, by the integer in their name
    parObjects     \* the buckets that hold the object test-key

parVars == <<parPc, parInt, parBuckets, parObjects>>

VARIABLES
    exState,       \* examples/droplet: how far the apply is with each resource
    exAttrs        \* the attributes of the resources in the state

exVars == <<exState, exAttrs>>

VARIABLES
    tmpTest,       \* the test function that is running
    tmpPc,         \* the statement it is at
    tmpDir,        \* the files of the temporary directory
    tmpLocals,     \* its local variables that hold file names
    tmpDefers,     \* the file names of its deferred os.Remove calls
    tmpConfigs     \* the configurations its test case holds

tmpVars == <<tmpTest, tmpPc, tmpDir, tmpLocals, tmpDefers, tmpConfigs>>

vars == <<appVars, objVars, sweepVars, parVars, exVars, tmpVars>>

(***************************************************************************)
(* Bounds of the model.                                                    *)
(***************************************************************************)
\* longest list of domains of an API spec
MaxDomains == 2
\* longest list of services of an API spec or of a configuration
MaxServices == 2
\* version IDs the store hands out before the test stops taking steps
MaxVersions == 3
\* longest list of env blocks of a component
MaxEnvs == 2
\* most buckets ListBuckets returns
MaxBuckets == 2

(***************************************************************************)
(* Go helpers.                                                             *)
(***************************************************************************)
NilPtr == <<>>
Ptr(v) == <<v>>
NilSlice == [isNil |-> TRUE, elems |-> <<>>]
Slice(s) == [isNil |-> FALSE, elems |-> s]
\* a nil element of a []interface{}
NilElem == [isNilElem |-> TRUE]
\* a value not computed yet
NoVal == <<>>

SeqsUpTo(S, n) == UNION {[1..k -> S] : k \in 0..n}

Range(s) == {s[i] : i \in 1..Len(s)}

(***************************************************************************)
(* schema.Set.  The set keeps one element per hash code; List() returns    *)
(* the elements in the order of their hash codes, compared as decimal      *)
(* strings.  The codes are hashcode.String (CRC-32) of the element for     *)
(* schema.HashString and of the element's serialization                    *)
(* "key:K;;scope:S;;type:T;;value:V;;" for schema.HashResource.            *)
(***************************************************************************)
\* s before t as strings of decimal digits (sort.StringSlice)
RECURSIVE LexLess(_, _)
LexLess(s, t) ==
    IF t = <<>> THEN FALSE
    ELSE IF s = <<>> THEN TRUE
    ELSE IF Head(s) # Head(t) THEN Head(s) < Head(t)
    ELSE LexLess(Tail(s), Tail(t))

\* the key of a domain name in a set: the decimal digits of its CRC-32
HashString(d) ==
    CASE d = "a.com" -> <<3,1,1,0,7,5,9,9,6,1>>
      [] d = "b.com" -> <<4,2,7,4,6,5,6,4,5,7>>
      [] d = "c.com" -> <<3,2,8,2,7,1,3,9,7,7>>
      [] OTHER -> <<0>>

\* the key of an env entry in a set: the decimal digits of the CRC-32 of
\* its serialization
HashEnv(e) ==
    CASE e.key = "K1" /\ e.value = "v1" /\ e.scope = "RUN_TIME" /\ e.type = "GENERAL"
            -> <<1,9,7,6,4,4,5,2,5,5>>
      [] e.key = "K2" /\ e.value = "v2" /\ e.scope = "RUN_AND_BUILD_TIME" /\ e.type = "SECRET"
            -> <<2,1,2,7,3,4,9,5,2,8>>
      [] e.key = "K1" /\ e.value = "v2" /\ e.scope = "BUILD_TIME" /\ e.type = "GENERAL"
            -> <<1,9,0,7,4,3,1,2,8>>
      [] OTHER -> <<0>>

\* Set.List(): the elements of S in the order of their keys code[x]
RECURSIVE SetList(_, _)
SetList(S, code) ==
    IF S = {} THEN <<>>
    ELSE LET first == CHOOSE x \in S :
                         \A y \in S \ {x} : ~LexLess(code[y], code[x])
         IN  <<first>> \o SetList(S \ {first}, code)

DomainSetList(S) == SetList(S, [d \in S |-> HashString(d)])
EnvSetList(S) == SetList(S, [e \in S |-> HashEnv(e)])

(***************************************************************************)
(* app_spec.go: expand (configuration -> godo.AppSpec) and flatten         *)
(* (godo.AppSpec -> state).                                                *)
(***************************************************************************)
expandAppDomainSpec(config) ==
    Slice([i \in 1..Len(config) |-> [Domain |-> config[i]]])

\* flattenAppDomainSpec adding the first domain only
flattenAppDomainSpecFirstOnly(spec) ==
    IF spec.isNil \/ Len(spec.elems) = 0 THEN {} ELSE {spec.elems[1].Domain}

flattenAppDomainSpec(spec) ==
    IF spec.isNil THEN {} ELSE {spec.elems[i].Domain : i \in 1..Len(spec.elems)}

expandAppGitHubSourceSpec(config) ==
    LET gitHubSourceConfig == config[1]
    IN  Ptr([Repo         |-> gitHubSourceConfig.repo,
             Branch       |-> gitHubSourceConfig.branch,
             DeployOnPush |-> gitHubSourceConfig.deploy_on_push])

flattenAppGitHubSourceSpec(spec) ==
    IF spec # NilPtr
    THEN <<[repo           |-> spec[1].Repo,
            branch         |-> spec[1].Branch,
            deploy_on_push |-> spec[1].DeployOnPush]>>
    ELSE <<>>

expandAppGitSourceSpec(config) ==
    LET gitSourceConfig == config[1]
    IN  Ptr([Branch       |-> gitSourceConfig.branch,
             RepoCloneURL |-> gitSourceConfig.repo_clone_url])

flattenAppGitSourceSpec(spec) ==
    IF spec # NilPtr
    THEN <<[branch         |-> spec[1].Branch,
            repo_clone_url |-> spec[1].RepoCloneURL]>>
    ELSE <<>>

\* expandAppEnvs with the key taken from the value
expandAppEnvsKeyFromValue(config) ==
    Slice([i \in 1..Len(config) |->
              [Value |-> config[i].value,
               Scope |-> config[i].scope,
               Key   |-> config[i].value,
               Type  |-> config[i].type]])

expandAppEnvs(config) ==
    Slice([i \in 1..Len(config) |->
              [Value |-> config[i].value,
               Scope |-> config[i].scope,
               Key   |-> config[i].key,
               Type  |-> config[i].type]])

flattenAppEnvs(appEnvs) ==
    IF appEnvs.isNil THEN {}
    ELSE {[value |-> appEnvs.elems[i].Value,
           scope |-> appEnvs.elems[i].Scope,
           key   |-> appEnvs.elems[i].Key,
           type  |-> appEnvs.elems[i].Type] : i \in 1..Len(appEnvs.elems)}

expandAppHealthCheck(config) ==
    LET healthCheckConfig == config[1]
    IN  Ptr([Path |-> healthCheckConfig.path])

\* flattenAppHealthCheck dropping the health check
flattenAppHealthCheckAlwaysEmpty(check) == <<>>

flattenAppHealthCheck(check) ==
    IF check # NilPtr THEN <<[path |-> check[1].Path]>> ELSE <<>>

\* expandAppRoutes keeping the first route only
expandAppRoutesFirstOnly(config) ==
    Slice(<<[Path |-> config[1].path]>>)

expandAppRoutes(config) ==
    Slice([i \in 1..Len(config) |-> [Path |-> config[i].path]])

flattenAppRoutes(routes) ==
    IF routes.isNil THEN <<>>
    ELSE [i \in 1..Len(routes.elems) |-> [path |-> routes.elems[i].Path]]

expandAppSpecServices(config) ==
    Slice([i \in 1..Len(config) |->
        LET service == config[i]
        IN  [Name             |-> service.name,
             RunCommand       |-> service.run_command,
             BuildCommand     |-> service.build_command,
             HTTPPort         |-> service.http_port,
             DockerfilePath   |-> service.dockerfile_path,
             Envs             |-> expandAppEnvs(EnvSetList(service.env)),
             InstanceSizeSlug |-> service.instance_size_slug,
             InstanceCount    |-> service.instance_count,
             SourceDir        |-> service.source_dir,
             EnvironmentSlug  |-> service.environment_slug,
             GitHub      |-> IF Len(service.github) > 0
                             THEN expandAppGitHubSourceSpec(service.github)
                             ELSE NilPtr,
             Git         |-> IF Len(service.git) > 0
                             THEN expandAppGitSourceSpec(service.git)
                             ELSE NilPtr,
             Routes      |-> IF Len(service.routes) > 0
                             THEN expandAppRoutes(service.routes)
                             ELSE NilSlice,
             HealthCheck |-> IF Len(service.health_check) > 0
                             THEN expandAppHealthCheck(service.health_check)
                             ELSE NilPtr]])

flattenAppSpecServices(services) ==
    [i \in 1..Len(services.elems) |->
        LET s == services.elems[i]
        IN  [name               |-> s.Name,
             run_command        |-> s.RunCommand,
             build_command      |-> s.BuildCommand,
             github             |-> flattenAppGitHubSourceSpec(s.GitHub),
             git                |-> flattenAppGitSourceSpec(s.Git),
             http_port          |-> s.HTTPPort,
             routes             |-> flattenAppRoutes(s.Routes),
             dockerfile_path    |-> s.DockerfilePath,
             env                |-> flattenAppEnvs(s.Envs),
             health_check       |-> flattenAppHealthCheck(s.HealthCheck),
             instance_size_slug |-> s.InstanceSizeSlug,
             instance_count     |-> s.InstanceCount,
             source_dir         |-> s.SourceDir,
             environment_slug   |-> s.EnvironmentSlug]]

expandAppSpecStaticSites(config) ==
    Slice([i \in 1..Len(config) |->
        LET site == config[i]
        IN  [Name            |-> site.name,
             BuildCommand    |-> site.build_command,
             DockerfilePath  |-> site.dockerfile_path,
             Envs            |-> expandAppEnvs(EnvSetList(site.env)),
             SourceDir       |-> site.source_dir,
             OutputDir       |-> site.output_dir,
             IndexDocument   |-> site.index_document,
             ErrorDocument   |-> site.error_document,
             EnvironmentSlug |-> site.environment_slug,
             GitHub |-> IF Len(site.github) > 0
                        THEN expandAppGitHubSourceSpec(site.github)
                        ELSE NilPtr,
             Git    |-> IF Len(site.git) > 0
                        THEN expandAppGitSourceSpec(site.git)
                        ELSE NilPtr,
             Routes |-> IF Len(site.routes) > 0
                        THEN expandAppRoutes(site.routes)
                        ELSE NilSlice]])

flattenAppSpecStaticSites(sites) ==
    [i \in 1..Len(sites.elems) |->
        LET s == sites.elems[i]
        IN  [name             |-> s.Name,
             build_command    |-> s.BuildCommand,
             github           |-> flattenAppGitHubSourceSpec(s.GitHub),
             git              |-> flattenAppGitSourceSpec(s.Git),
             routes           |-> flattenAppRoutes(s.Routes),
             dockerfile_path  |-> s.DockerfilePath,
             env              |-> flattenAppEnvs(s.Envs),
             source_dir       |-> s.SourceDir,
             output_dir       |-> s.OutputDir,
             index_document   |-> s.IndexDocument,
             error_document   |-> s.ErrorDocument,
             environment_slug |-> s.EnvironmentSlug]]

\* the worker's "routes" attribute is not read
expandAppSpecWorkers(config) ==
    Slice([i \in 1..Len(config) |->
        LET worker == config[i]
        IN  [Name             |-> worker.name,
             RunCommand       |-> worker.run_command,
             BuildCommand     |-> worker.build_command,
             DockerfilePath   |-> worker.dockerfile_path,
             Envs             |-> expandAppEnvs(EnvSetList(worker.env)),
             InstanceSizeSlug |-> worker.instance_size_slug,
             InstanceCount    |-> worker.instance_count,
             SourceDir        |-> worker.source_dir,
             EnvironmentSlug  |-> worker.environment_slug,
             GitHub |-> IF Len(worker.github) > 0
                        THEN expandAppGitHubSourceSpec(worker.github)
                        ELSE NilPtr,
             Git    |-> IF Len(worker.git) > 0
                        THEN expandAppGitSourceSpec(worker.git)
                        ELSE NilPtr]])

\* no "routes" key is written
flattenAppSpecWorkers(workers) ==
    [i \in 1..Len(workers.elems) |->
        LET w == workers.elems[i]
        IN  [name               |-> w.Name,
             run_command        |-> w.RunCommand,
             build_command      |-> w.BuildCommand,
             github             |-> flattenAppGitHubSourceSpec(w.GitHub),
             git                |-> flattenAppGitSourceSpec(w.Git),
             dockerfile_path    |-> w.DockerfilePath,
             env                |-> flattenAppEnvs(w.Envs),
             instance_size_slug |-> w.InstanceSizeSlug,
             instance_count     |-> w.InstanceCount,
             source_dir         |-> w.SourceDir,
             environment_slug   |-> w.EnvironmentSlug]]

expandAppSpecDatabases(config) ==
    Slice([i \in 1..Len(config) |->
        LET db == config[i]
        IN  [Name        |-> db.name,
             Engine      |-> db.engine,
             Version     |-> db.version,
             Production  |-> db.production,
             ClusterName |-> db.cluster_name,
             DBName      |-> db.db_name,
             DBUser      |-> db.db_user]])

\* flattenAppSpecDatabases writing the databases in reverse order
flattenAppSpecDatabasesReversed(databases) ==
    [i \in 1..Len(databases.elems) |->
        LET db == databases.elems[Len(databases.elems) + 1 - i]
        IN  [name         |-> db.Name,
             engine       |-> db.Engine,
             version      |-> db.Version,
             production   |-> db.Production,
             cluster_name |-> db.ClusterName,
             db_name      |-> db.DBName,
             db_user      |-> db.DBUser]]

flattenAppSpecDatabases(databases) ==
    [i \in 1..Len(databases.elems) |->
        LET db == databases.elems[i]
        IN  [name         |-> db.Name,
             engine       |-> db.Engine,
             version      |-> db.Version,
             production   |-> db.Production,
             cluster_name |-> db.ClusterName,
             db_name      |-> db.DBName,
             db_user      |-> db.DBUser]]

\* an AppSpec that is not empty: it carries a name and a region
NamedAppSpec ==
    [Name |-> "app", Region |-> "nyc", Domains |-> NilSlice, Services |-> NilSlice,
     StaticSites |-> NilSlice, Workers |-> NilSlice, Databases |-> NilSlice]

\* &godo.AppSpec{}: every field has its zero value
EmptyAppSpec ==
    [Name |-> "", Region |-> "", Domains |-> NilSlice, Services |-> NilSlice,
     StaticSites |-> NilSlice, Workers |-> NilSlice, Databases |-> NilSlice]

expandAppSpec(config) ==
    IF Len(config) = 0 \/ config[1] = NilElem
    THEN Ptr(EmptyAppSpec)
    ELSE LET appSpecConfig == config[1]
         IN  Ptr([Name        |-> appSpecConfig.name,
                  Region      |-> appSpecConfig.region,
                  Domains     |-> expandAppDomainSpec(DomainSetList(appSpecConfig.domains)),
                  Services    |-> expandAppSpecServices(appSpecConfig.service),
                  StaticSites |-> expandAppSpecStaticSites(appSpecConfig.static_site),
                  Workers     |-> expandAppSpecWorkers(appSpecConfig.worker),
                  Databases   |-> expandAppSpecDatabases(appSpecConfig.database)])

\* the key written whatever the condition
AlwaysKey(cond, k, v) == k :> v

\* a key of the map is written only under the condition given for it
OptKey(cond, k, v) == IF cond THEN (k :> v) ELSE <<>>

flattenAppSpec(spec) ==
    IF spec # NilPtr
    THEN LET s == spec[1]
         IN  <<[name    |-> s.Name,
                region  |-> s.Region,
                domains |-> flattenAppDomainSpec(s.Domains)]
               @@ OptKey(Len(s.Services.elems) > 0, "service",
                         flattenAppSpecServices(s.Services))
               @@ OptKey(Len(s.StaticSites.elems) > 0, "static_site",
                         flattenAppSpecStaticSites(s.StaticSites))
               @@ OptKey(Len(s.Workers.elems) > 0, "worker",
                         flattenAppSpecWorkers(s.Workers))
               @@ OptKey(Len(s.Databases.elems) > 0, "database",
                         flattenAppSpecDatabases(s.Databases))>>
    ELSE <<>>

(***************************************************************************)
(* The schemas.  Each is given as the map from the attributes it declares  *)
(* to the zero value of the attribute's type: "" for TypeString, 0 for     *)
(* TypeInt, FALSE for TypeBool, <<>> for TypeList, {} for TypeSet.         *)
(***************************************************************************)
appSpecGitSourceSchema == [repo_clone_url |-> "", branch |-> ""]

appSpecGitHubSourceSchema == [repo |-> "", branch |-> "", deploy_on_push |-> FALSE]

\* scope and type have a Default
appSpecEnvSchema ==
    [key |-> "", value |-> "", scope |-> "RUN_AND_BUILD_TIME", type |-> "GENERAL"]

appSpecRouteSchema == [path |-> ""]

appSpecHealthCheckSchema == [path |-> ""]

appSpecComponentBase ==
    [name |-> "", git |-> <<>>, github |-> <<>>, dockerfile_path |-> "",
     build_command |-> "", env |-> {}, routes |-> <<>>, source_dir |-> "",
     environment_slug |-> ""]

appSpecServicesSchema ==
    [run_command |-> "", http_port |-> 0, instance_size_slug |-> "",
     instance_count |-> 0, health_check |-> <<>>] @@ appSpecComponentBase

appSpecStaticSiteSchema ==
    [output_dir |-> "", index_document |-> "", error_document |-> ""]
    @@ appSpecComponentBase

appSpecWorkerSchema ==
    [run_command |-> "", instance_size_slug |-> "", instance_count |-> 0]
    @@ appSpecComponentBase

appSpecDatabaseSchema ==
    [name |-> "", engine |-> "", version |-> "", production |-> FALSE,
     cluster_name |-> "", db_name |-> "", db_user |-> ""]

appSpecSchema ==
    [name |-> "", region |-> "", domains |-> {}, service |-> <<>>,
     static_site |-> <<>>, worker |-> <<>>, database |-> <<>>]

(***************************************************************************)
(* The value of an attribute as the resource reads it (d.Get) after it was *)
(* written (d.Set): a map carries every attribute its schema declares, an  *)
(* attribute that was not written has the zero value of its type, and a    *)
(* key the schema does not declare is dropped.                             *)
(***************************************************************************)
ReadMap(m, schema) ==
    [k \in DOMAIN schema |-> IF k \in DOMAIN m THEN m[k] ELSE schema[k]]

ReadList(list, schema) == [i \in 1..Len(list) |-> ReadMap(list[i], schema)]

\* the nested blocks of a component that its schema declares
ReadComponent(m, schema) ==
    LET r == ReadMap(m, schema)
        Nested(k, v) ==
            CASE k = "git"          -> ReadList(v, appSpecGitSourceSchema)
              [] k = "github"       -> ReadList(v, appSpecGitHubSourceSchema)
              [] k = "routes"       -> ReadList(v, appSpecRouteSchema)
              [] k = "health_check" -> ReadList(v, appSpecHealthCheckSchema)
              [] OTHER              -> v
    IN  [k \in DOMAIN r |-> Nested(k, r[k])]

ReadComponents(list, schema) ==
    [i \in 1..Len(list) |-> ReadComponent(list[i], schema)]

\* d.Set("spec", flat) followed by d.Get("spec")
ReadSpec(flat) ==
    [i \in 1..Len(flat) |->
        LET r == ReadMap(flat[i], appSpecSchema)
        IN  [name        |-> r.name,
             region      |-> r.region,
             domains     |-> r.domains,
             service     |-> ReadComponents(r.service, appSpecServicesSchema),
             static_site |-> ReadComponents(r.static_site, appSpecStaticSiteSchema),
             worker      |-> ReadComponents(r.worker, appSpecWorkerSchema),
             database    |-> ReadList(r.database, appSpecDatabaseSchema)]]

(***************************************************************************)
(* The inputs: API specs (godo.AppSpec values the service may return) and  *)
(* schema-complete configurations, drawn from bounded sets.                *)
(***************************************************************************)
DomainNames == {"a.com", "b.com"}

EnvA == [Key |-> "K1", Value |-> "v1", Scope |-> "RUN_TIME", Type |-> "GENERAL"]
EnvB == [Key |-> "K2", Value |-> "v2", Scope |-> "RUN_AND_BUILD_TIME", Type |-> "SECRET"]
EnvC == [Key |-> "K1", Value |-> "v2", Scope |-> "BUILD_TIME", Type |-> "GENERAL"]

ApiGitHub == Ptr([Repo |-> "o/r", Branch |-> "main", DeployOnPush |-> TRUE])
ApiGit == Ptr([Branch |-> "dev", RepoCloneURL |-> "https://g/r.git"])

ApiService(name, github, git, routes, check, envs, port) ==
    [Name |-> name, RunCommand |-> "run", BuildCommand |-> "build",
     HTTPPort |-> port, DockerfilePath |-> "Dockerfile", Envs |-> envs,
     InstanceSizeSlug |-> "basic-xxs", InstanceCount |-> 1 + port,
     SourceDir |-> "/", EnvironmentSlug |-> "go",
     GitHub |-> github, Git |-> git, Routes |-> routes, HealthCheck |-> check]

ApiServicePool ==
    { ApiService("s1", NilPtr, NilPtr, NilSlice, NilPtr, NilSlice, 0),
      ApiService("s2", ApiGitHub, NilPtr, Slice(<<[Path |-> "/"]>>),
                 Ptr([Path |-> "/health"]), Slice(<<EnvA, EnvC>>), 1),
      ApiService("s3", NilPtr, ApiGit, Slice(<<[Path |-> "/a"], [Path |-> "/b"]>>),
                 NilPtr, Slice(<<EnvB>>), 2) }

ApiStaticSite ==
    [Name |-> "site", BuildCommand |-> "make", DockerfilePath |-> "",
     Envs |-> Slice(<<EnvA>>), SourceDir |-> "web", OutputDir |-> "dist",
     IndexDocument |-> "index.html", ErrorDocument |-> "404.html",
     EnvironmentSlug |-> "html", GitHub |-> ApiGitHub, Git |-> NilPtr,
     Routes |-> Slice(<<[Path |-> "/static"]>>)]

ApiWorker ==
    [Name |-> "w", RunCommand |-> "work", BuildCommand |-> "", DockerfilePath |-> "",
     Envs |-> Slice(<<EnvB>>), InstanceSizeSlug |-> "basic-xs", InstanceCount |-> 2,
     SourceDir |-> "", EnvironmentSlug |-> "", GitHub |-> NilPtr, Git |-> ApiGit]

ApiDatabase(name, engine) ==
    [Name |-> name, Engine |-> engine, Version |-> "12", Production |-> engine = "PG",
     ClusterName |-> "c", DBName |-> "d", DBUser |-> "u"]

\* the static sites, workers and databases of an API spec
ApiOthers ==
    { <<NilSlice, NilSlice, NilSlice>>,
      <<Slice(<<ApiStaticSite>>), NilSlice, Slice(<<ApiDatabase("db", "PG")>>)>>,
      <<NilSlice, Slice(<<ApiWorker>>), NilSlice>>,
      <<Slice(<<ApiStaticSite>>), Slice(<<ApiWorker>>),
        Slice(<<ApiDatabase("db", "MYSQL"), ApiDatabase("cache", "REDIS")>>)>> }

SlicesUpTo(S, n) == {NilSlice} \cup {Slice(s) : s \in SeqsUpTo(S, n)}

ApiSpecs ==
    { [Name |-> "app", Region |-> "nyc", Domains |-> d, Services |-> s,
       StaticSites |-> o[1], Workers |-> o[2], Databases |-> o[3]] :
        d \in SlicesUpTo({[Domain |-> n] : n \in DomainNames}, MaxDomains),
        s \in SlicesUpTo(ApiServicePool, MaxServices),
        o \in ApiOthers }

CfgEnvA == [key |-> "K1", value |-> "v1", scope |-> "RUN_TIME", type |-> "GENERAL"]
CfgEnvB == [key |-> "K2", value |-> "v2", scope |-> "RUN_AND_BUILD_TIME", type |-> "SECRET"]
CfgGitHub == <<[repo |-> "o/r", branch |-> "main", deploy_on_push |-> TRUE]>>
CfgGit == <<[branch |-> "dev", repo_clone_url |-> "https://g/r.git"]>>

CfgService(name, github, git, routes, check, envs, port) ==
    [name |-> name, run_command |-> "run", build_command |-> "build",
     http_port |-> port, dockerfile_path |-> "Dockerfile", env |-> envs,
     instance_size_slug |-> "basic-xxs", instance_count |-> 1 + port,
     source_dir |-> "/", environment_slug |-> "go",
     github |-> github, git |-> git, routes |-> routes, health_check |-> check]

CfgServicePool ==
    { CfgService("s1", <<>>, <<>>, <<>>, <<>>, {}, 0),
      CfgService("s2", CfgGitHub, <<>>, <<[path |-> "/"]>>, <<[path |-> "/health"]>>,
                 {CfgEnvA, CfgEnvB}, 1) }

CfgStaticSite ==
    [name |-> "site", build_command |-> "make", dockerfile_path |-> "",
     env |-> {CfgEnvA}, source_dir |-> "web", output_dir |-> "dist",
     index_document |-> "index.html", error_document |-> "404.html",
     environment_slug |-> "html", github |-> CfgGitHub, git |-> <<>>,
     routes |-> <<[path |-> "/static"]>>]

CfgWorker(routes) ==
    [name |-> "w", run_command |-> "work", build_command |-> "", dockerfile_path |-> "",
     env |-> {CfgEnvB}, instance_size_slug |-> "basic-xs", instance_count |-> 2,
     source_dir |-> "", environment_slug |-> "", github |-> <<>>, git |-> CfgGit,
     routes |-> routes]

CfgDatabase(name, engine) ==
    [name |-> name, engine |-> engine, version |-> "12", production |-> engine = "PG",
     cluster_name |-> "c", db_name |-> "d", db_user |-> "u"]

\* the static_site, worker and database lists of a configuration
CfgOthers ==
    { <<<<>>, <<>>, <<>>>>,
      <<<<CfgStaticSite>>, <<>>, <<CfgDatabase("db", "PG")>>>>,
      <<<<>>, <<CfgWorker(<<>>)>>, <<>>>>,
      <<<<CfgStaticSite>>, <<CfgWorker(<<[path |-> "/w"]>>)>>,
        <<CfgDatabase("db", "MYSQL"), CfgDatabase("cache", "REDIS")>>>> }

\* the schema-complete configurations: a one-element list whose map carries
\* every attribute of appSpecSchema
AppConfigs ==
    { <<[name |-> "app", region |-> "nyc", domains |-> d, service |-> s,
         static_site |-> o[1], worker |-> o[2], database |-> o[3]]>> :
        d \in SUBSET DomainNames,
        s \in SeqsUpTo(CfgServicePool, MaxServices),
        o \in CfgOthers }

(***************************************************************************)
(* Bytes, base64 and MD5.  A content is a sequence of bytes; a base64 text *)
(* is a sequence of indexes into the base64 alphabet, Pad for "=".         *)
(***************************************************************************)
\* "lane 8" and "chicane", the data of the updateSameFile test
Lane8 == <<108, 97, 110, 101, 32, 56>>
Chicane == <<99, 104, 105, 99, 97, 110, 101>>

\* "some_bucket_content", the content of the storage class configuration
SomeBucketContent ==
    <<115, 111, 109, 101, 95, 98, 117, 99, 107, 101, 116, 95, 99, 111, 110, 116,
      101, 110, 116>>

Pad == 64

Sextets(n) == <<n \div 262144, (n \div 4096) % 64, (n \div 64) % 64, n % 64>>

\* base64.StdEncoding.EncodeToString
RECURSIVE Base64Encode(_)
Base64Encode(b) ==
    CASE Len(b) = 0 -> <<>>
      [] Len(b) = 1 -> LET s == Sextets(b[1] * 65536) IN <<s[1], s[2], Pad, Pad>>
      [] Len(b) = 2 -> LET s == Sextets(b[1] * 65536 + b[2] * 256)
                       IN  <<s[1], s[2], s[3], Pad>>
      [] OTHER -> Sextets(b[1] * 65536 + b[2] * 256 + b[3])
                  \o Base64Encode(SubSeq(b, 4, Len(b)))

\* base64.StdEncoding.DecodeString: [ok, bytes]
RECURSIVE Base64Decode(_)
Base64Decode(s) ==
    IF Len(s) = 0 THEN [ok |-> TRUE, bytes |-> <<>>]
    ELSE IF Len(s) < 4 \/ s[1] = Pad \/ s[2] = Pad THEN [ok |-> FALSE, bytes |-> <<>>]
    ELSE IF s[3] = Pad
         THEN [ok |-> Len(s) = 4 /\ s[4] = Pad /\ s[2] % 16 = 0,
               bytes |-> <<s[1] * 4 + s[2] \div 16>>]
    ELSE IF s[4] = Pad
         THEN [ok |-> Len(s) = 4 /\ s[3] % 4 = 0,
               bytes |-> <<s[1] * 4 + s[2] \div 16, (s[2] % 16) * 16 + s[3] \div 4>>]
    ELSE LET rest == Base64Decode(SubSeq(s, 5, Len(s)))
         IN  [ok |-> rest.ok,
              bytes |-> <<s[1] * 4 + s[2] \div 16,
                          (s[2] % 16) * 16 + s[3] \div 4,
                          (s[3] % 4) * 64 + s[4]>> \o rest.bytes]

\* the MD5 of a content, in hexadecimal (the etag of an object, filemd5)
MD5(b) ==
    CASE b = <<>>    -> "d41d8cd98f00b204e9800998ecf8427e"
      [] b = Lane8   -> "aa48b42f36a2652cbee40c30a5df7d25"
      [] b = Chicane -> "fafc05f8c4da0266a99154681ab86e8c"
      [] b = SomeBucketContent -> "3aa092e6f0fe468e376603aaeb32b5b8"
      [] OTHER       -> "00000000000000000000000000000000"

(***************************************************************************)
(* The test configurations.  A configuration declares a set of bucket      *)
(* resources and the object resource; an attribute of the object is a      *)
(* literal or a reference to an attribute of a bucket resource.            *)
(***************************************************************************)
\* another region than the one the tests use
OtherRegion == "ams3"

testAccDigitalOceanSpacesBucketObject_TestRegion == "nyc3"

\* "tf-object-test-bucket-%d" for the random integer of the test
TestBucketName == "tf-object-test-bucket-1"

Lit(v) == [lit |-> v]
\* digitalocean_spaces_bucket.<name>.<attr>
Ref(name, attr) == [ref |-> name, attr |-> attr]

\* a bucket block with versioning enabled whatever the argument
BucketBlockVersioned(name, versioning) ==
    [name |-> name, region |-> testAccDigitalOceanSpacesBucketObject_TestRegion,
     bucket |-> TestBucketName, versioning |-> TRUE]

\* resource "digitalocean_spaces_bucket" "<name>"
BucketBlock(name, versioning) ==
    [name |-> name, region |-> testAccDigitalOceanSpacesBucketObject_TestRegion,
     bucket |-> TestBucketName, versioning |-> versioning]

\* variants of the configurations below, each with one attribute changed
ConfigBasicWithDefaults(bucketArg, key) ==
    [buckets |-> {BucketBlock("object_bucket", FALSE)},
     object |-> [region |-> Lit(testAccDigitalOceanSpacesBucketObject_TestRegion),
                 bucket |-> Lit(TestBucketName),
                 key    |-> "test-key"]]

ConfigSourceFirstFile(source) ==
    [buckets |-> {BucketBlock("object_bucket", FALSE)},
     object |-> [region       |-> Ref("object_bucket", "region"),
                 bucket       |-> Ref("object_bucket", "bucket"),
                 key          |-> "test-key",
                 source       |-> "tf-acc-s3-obj1",
                 content_type |-> "binary/octet-stream"]]

ConfigContentBase64AsContent(contentBase64) ==
    [buckets |-> {BucketBlock("object_bucket", FALSE)},
     object |-> [region  |-> Ref("object_bucket", "region"),
                 bucket  |-> Ref("object_bucket", "bucket"),
                 key     |-> "test-key",
                 content |-> contentBase64]]

Config_updateableWithoutEtag(bucketVersioning, source) ==
    [buckets |-> {BucketBlock("object_bucket_3", bucketVersioning)},
     object |-> [region |-> Ref("object_bucket", "region"),
                 bucket |-> Ref("object_bucket_3", "bucket"),
                 key    |-> "updateable-key",
                 source |-> source]]

Config_aclPrivate(content, acl) ==
    [buckets |-> {BucketBlock("object_bucket", TRUE)},
     object |-> [region  |-> Ref("object_bucket", "region"),
                 bucket  |-> Ref("object_bucket", "bucket"),
                 key     |-> "test-key",
                 content |-> content,
                 acl     |-> "private"]]

Config_withFirstMetadata(metadataKey1, metadataValue1, metadataKey2, metadataValue2) ==
    [buckets |-> {BucketBlock("object_bucket", FALSE)},
     object |-> [region   |-> Ref("object_bucket", "region"),
                 bucket   |-> Ref("object_bucket", "bucket"),
                 key      |-> "test-key",
                 metadata |-> (metadataKey1 :> metadataValue1)]]

testAccDigitalOceanSpacesBucketObjectConfigBasic(bucketArg, key) ==
    [buckets |-> {},
     object |-> [region |-> Lit(testAccDigitalOceanSpacesBucketObject_TestRegion),
                 bucket |-> Lit(bucketArg),
                 key    |-> key]]

testAccDigitalOceanSpacesBucketObjectConfigEmpty ==
    [buckets |-> {BucketBlock("object_bucket", FALSE)},
     object |-> [region |-> Ref("object_bucket", "region"),
                 bucket |-> Ref("object_bucket", "bucket"),
                 key    |-> "test-key"]]

testAccDigitalOceanSpacesBucketObjectConfigSource(source) ==
    [buckets |-> {BucketBlock("object_bucket", FALSE)},
     object |-> [region       |-> Ref("object_bucket", "region"),
                 bucket       |-> Ref("object_bucket", "bucket"),
                 key          |-> "test-key",
                 source       |-> source,
                 content_type |-> "binary/octet-stream"]]

testAccDigitalOceanSpacesBucketObjectConfig_withContentCharacteristics(source) ==
    [buckets |-> {BucketBlock("object_bucket", FALSE)},
     object |-> [region           |-> Ref("object_bucket", "region"),
                 bucket           |-> Ref("object_bucket", "bucket"),
                 key              |-> "test-key",
                 source           |-> source,
                 content_language |-> "en",
                 content_type     |-> "binary/octet-stream",
                 website_redirect |-> "http://google.com"]]

testAccDigitalOceanSpacesBucketObjectConfigContent(content) ==
    [buckets |-> {BucketBlock("object_bucket", FALSE)},
     object |-> [region  |-> Ref("object_bucket", "region"),
                 bucket  |-> Ref("object_bucket", "bucket"),
                 key     |-> "test-key",
                 content |-> content]]

testAccDigitalOceanSpacesBucketObjectConfigContentBase64(contentBase64) ==
    [buckets |-> {BucketBlock("object_bucket", FALSE)},
     object |-> [region         |-> Ref("object_bucket", "region"),
                 bucket         |-> Ref("object_bucket", "bucket"),
                 key            |-> "test-key",
                 content_base64 |-> contentBase64]]

\* the region refers to object_bucket, the resource declared is object_bucket_3
testAccDigitalOceanSpacesBucketObjectConfig_updateable(bucketVersioning, source) ==
    [buckets |-> {BucketBlock("object_bucket_3", bucketVersioning)},
     object |-> [region |-> Ref("object_bucket", "region"),
                 bucket |-> Ref("object_bucket_3", "bucket"),
                 key    |-> "updateable-key",
                 source |-> source,
                 etag   |-> [filemd5 |-> source]]]

testAccDigitalOceanSpacesBucketObjectConfig_acl(content, acl) ==
    [buckets |-> {BucketBlock("object_bucket", TRUE)},
     object |-> [region  |-> Ref("object_bucket", "region"),
                 bucket  |-> Ref("object_bucket", "bucket"),
                 key     |-> "test-key",
                 content |-> content,
                 acl     |-> acl]]

Config_storageClassOmitted(storage_class) ==
    [buckets |-> {BucketBlock("object_bucket", FALSE)},
     object |-> [region  |-> Ref("object_bucket", "region"),
                 bucket  |-> Ref("object_bucket", "bucket"),
                 key     |-> "test-key",
                 content |-> SomeBucketContent]]

testAccDigitalOceanSpacesBucketObjectConfig_storageClass(storage_class) ==
    [buckets |-> {BucketBlock("object_bucket", FALSE)},
     object |-> [region        |-> Ref("object_bucket", "region"),
                 bucket        |-> Ref("object_bucket", "bucket"),
                 key           |-> "test-key",
                 content       |-> SomeBucketContent,
                 storage_class |-> storage_class]]

testAccDigitalOceanSpacesBucketObjectConfig_withMetadata(metadataKey1, metadataValue1, metadataKey2, metadataValue2) ==
    [buckets |-> {BucketBlock("object_bucket", FALSE)},
     object |-> [region   |-> Ref("object_bucket", "region"),
                 bucket   |-> Ref("object_bucket", "bucket"),
                 key      |-> "test-key",
                 metadata |-> (metadataKey1 :> metadataValue1)
                              @@ (metadataKey2 :> metadataValue2)]]

testAccDigitalOceanSpacesBucketObjectConfig_NonVersioned(source) ==
    [buckets |-> {BucketBlock("object_bucket_3", FALSE)},
     object |-> [region |-> Ref("object_bucket", "region"),
                 bucket |-> Ref("object_bucket_3", "bucket"),
                 key    |-> "updateable-key",
                 source |-> source,
                 etag   |-> [filemd5 |-> source]]]

(***************************************************************************)
(* Terraform: references, validation and the value of an attribute.        *)
(***************************************************************************)
Attr(o, k, zero) == IF k \in DOMAIN o THEN o[k] ELSE zero

Declared(cfg) == {b.name : b \in cfg.buckets}

References(cfg) ==
    {cfg.object[k].ref : k \in {a \in {"region", "bucket"} : "ref" \in DOMAIN cfg.object[a]}}

\* the references of the configuration to a resource it does not declare
UndeclaredReferences(cfg) == References(cfg) \ Declared(cfg)

Resolve(cfg, v) ==
    IF "lit" \in DOMAIN v THEN v.lit
    ELSE (CHOOSE b \in cfg.buckets : b.name = v.ref)[v.attr]

\* the configuration with every reference naming the bucket it declares
WithDeclaredReferences(cfg) ==
    LET Fix(v) == IF "ref" \in DOMAIN v /\ cfg.buckets # {}
                  THEN Ref((CHOOSE b \in cfg.buckets : TRUE).name, v.attr)
                  ELSE v
    IN  [cfg EXCEPT !.object = [k \in DOMAIN cfg.object |->
                                   IF k \in {"region", "bucket"}
                                   THEN Fix(cfg.object[k]) ELSE cfg.object[k]]]

\* the attributes of the object resource a configuration asks for; an
\* optional attribute that is not set has its zero value or its default
Desired(cfg, fs) ==
    LET o == cfg.object
    IN  [region           |-> Resolve(cfg, o.region),
         bucket           |-> Resolve(cfg, o.bucket),
         key              |-> o.key,
         source           |-> Attr(o, "source", ""),
         content          |-> Attr(o, "content", <<>>),
         content_base64   |-> Attr(o, "content_base64", <<>>),
         content_language |-> Attr(o, "content_language", ""),
         website_redirect |-> Attr(o, "website_redirect", ""),
         acl              |-> Attr(o, "acl", "private"),
         metadata         |-> Attr(o, "metadata", <<>>),
         storage_class    |-> Attr(o, "storage_class", "STANDARD"),
         \* optional and computed: <<>> when the configuration does not set it
         content_type     |-> IF "content_type" \in DOMAIN o THEN <<o.content_type>> ELSE <<>>,
         etag             |-> IF "etag" \in DOMAIN o THEN <<MD5(fs[o.etag.filemd5])>> ELSE <<>>]

\* validation.NoZeroValues on bucket and key
ValidationErrors(want) ==
    {m \in {"bucket must not be empty", "key must not be empty"} :
        \/ m = "bucket must not be empty" /\ want.bucket = ""
        \/ m = "key must not be empty" /\ want.key = ""}

(***************************************************************************)
(* The object store.                                                       *)
(***************************************************************************)
NoObject == <<>>

\* the grants of a canned ACL
GrantsOf(acl) ==
    IF acl = "public-read"
    THEN {[Grantee |-> "owner", Permission |-> "FULL_CONTROL"],
          [Grantee |-> "AllUsers", Permission |-> "READ"]}
    ELSE {[Grantee |-> "owner", Permission |-> "FULL_CONTROL"]}

\* the store's answer leaves the storage class out when it is STANDARD
StoredClass(class) == IF class = "STANDARD" THEN <<>> ELSE <<class>>

\* the classes whose objects cannot be got without restoring them
ArchiveClasses == {"GLACIER", "DEEP_ARCHIVE"}

PutObject(objs, versioning, key, body, acl, metadata, contentType, version, class) ==
    [objs EXCEPT ![key] =
        <<[Body        |-> body,
           ETag        |-> MD5(body),
           VersionId   |-> IF versioning THEN <<version>> ELSE <<>>,
           Grants      |-> GrantsOf(acl),
           Metadata    |-> metadata,
           ContentType |-> contentType,
           StorageClass |-> StoredClass(class)]>>]

PutObjectAcl(objs, key, acl) ==
    [objs EXCEPT ![key] = <<[objs[key][1] EXCEPT !.Grants = GrantsOf(acl)]>>]

DeleteObject(objs, key) == [objs EXCEPT ![key] = NoObject]

\* HeadObject / GetObjectAcl with If-Match: [err, out]
HeadObject(b, objs, bucketName, key, ifMatch) ==
    IF /\ b.exists
       /\ bucketName = TestBucketName
       /\ key \in DOMAIN objs
       /\ objs[key] # NoObject
       /\ (ifMatch # <<>> => objs[key][1].ETag = ifMatch[1])
    THEN [err |-> FALSE, out |-> <<objs[key][1]>>]
    ELSE [err |-> TRUE, out |-> <<>>]

\* GetObject with If-Match: [err, out]; an archived object is not got
GetObject(b, objs, bucketName, key, ifMatch) ==
    IF /\ b.exists
       /\ key \in DOMAIN objs
       /\ objs[key] # NoObject
       /\ objs[key][1].StorageClass # <<>>
       /\ objs[key][1].StorageClass[1] \in ArchiveClasses
    THEN [err |-> TRUE, out |-> <<>>]
    ELSE HeadObject(b, objs, bucketName, key, ifMatch)

(***************************************************************************)
(* The object resource: create, read, update, delete.                      *)
(***************************************************************************)
\* a change of one of these uploads the object again
PutKeys ==
    {"content_base64", "content_language", "content_type", "content", "etag",
     "metadata", "source", "storage_class", "website_redirect"}

\* the body uploaded: source, else content, else content_base64, else empty
UploadBody(want, fs) ==
    IF want.source # "" THEN [ok |-> TRUE, bytes |-> fs[want.source]]
    ELSE IF want.content # <<>> THEN [ok |-> TRUE, bytes |-> want.content]
    ELSE IF want.content_base64 # <<>> THEN Base64Decode(want.content_base64)
    ELSE [ok |-> TRUE, bytes |-> <<>>]

\* the planned value of an attribute: an optional and computed attribute
\* the configuration does not set keeps the value of the state
Planned(want, old, k) ==
    IF k \in {"content_type", "etag"}
    THEN IF want[k] # <<>> THEN want[k][1] ELSE old[k]
    ELSE want[k]

HasChange(want, old, k) == Planned(want, old, k) # old[k]

NeedsCreate(old) == old = <<>>

\* bucket, key and region force a new object
NeedsReplace(want, old) ==
    /\ old # <<>>
    /\ \E k \in {"bucket", "key", "region"} : want[k] # old[1][k]

NeedsPut(want, old) ==
    \/ NeedsCreate(old)
    \/ NeedsReplace(want, old)
    \/ \E k \in PutKeys : HasChange(want, old[1], k)

NeedsAcl(want, old) == ~NeedsPut(want, old) /\ HasChange(want, old[1], "acl")

\* resourceDigitalOceanSpacesBucketObjectRead: the state after HeadObject
ReadObject(want, stored) ==
    <<[id               |-> want.key,
       region           |-> want.region,
       bucket           |-> want.bucket,
       key              |-> want.key,
       source           |-> want.source,
       content          |-> want.content,
       content_base64   |-> want.content_base64,
       content_language |-> want.content_language,
       website_redirect |-> want.website_redirect,
       acl              |-> want.acl,
       metadata         |-> stored.Metadata,
       storage_class    |-> IF stored.StorageClass # <<>> THEN stored.StorageClass[1]
                            ELSE "STANDARD",
       content_type     |-> stored.ContentType,
       etag             |-> stored.ETag,
       version_id       |-> stored.VersionId,
       object_lock_legal_hold_status |-> "",
       object_lock_mode              |-> "",
       object_lock_retain_until_date |-> ""]>>

\* terraform apply of a configuration: the errors and the new store and state
Apply(cfg, fs, b, objs, tb, to, version) ==
    LET want   == Desired(cfg, fs)
        same   == [err |-> {}, bucket |-> b, objects |-> objs, tfBucket |-> tb,
                   tfObj |-> to, nextVersion |-> version]
        block  == CHOOSE x \in cfg.buckets : TRUE
        body   == UploadBody(want, fs)
        ctype  == IF want.content_type # <<>> THEN want.content_type[1]
                  ELSE "binary/octet-stream"
        objs0  == IF NeedsReplace(want, to) THEN DeleteObject(objs, to[1].key) ELSE objs
        objs1  == IF NeedsPut(want, to)
                  THEN PutObject(objs0, block.versioning, want.key, body.bytes,
                                 want.acl, want.metadata, ctype, version,
                                 want.storage_class)
                  ELSE IF NeedsAcl(want, to) THEN PutObjectAcl(objs0, want.key, want.acl)
                  ELSE objs0
    IN  IF UndeclaredReferences(cfg) # {}
        THEN [same EXCEPT !.err = {"Reference to undeclared resource"}]
        ELSE IF ValidationErrors(want) # {}
        THEN [same EXCEPT !.err = ValidationErrors(want)]
        ELSE IF cfg.buckets = {} \/ want.bucket # TestBucketName
        THEN [same EXCEPT !.err = {"NoSuchBucket"}]
        ELSE IF NeedsPut(want, to) /\ ~body.ok
        THEN [same EXCEPT !.err = {"illegal base64 data"},
                          !.bucket = [exists |-> TRUE, versioning |-> block.versioning],
                          !.tfBucket = <<block>>]
        ELSE [err         |-> {},
              bucket      |-> [exists |-> TRUE, versioning |-> block.versioning],
              objects     |-> objs1,
              tfBucket    |-> <<block>>,
              tfObj       |-> ReadObject(want, objs1[want.key][1]),
              nextVersion |-> IF NeedsPut(want, to) /\ block.versioning
                              THEN version + 1 ELSE version]

\* terraform plan of a configuration against the state has changes
PlanNonEmpty(cfg, fs, tb, to) ==
    /\ UndeclaredReferences(cfg) = {}
    /\ cfg.buckets # {}
    /\ LET want == Desired(cfg, fs)
       IN  \/ tb # <<CHOOSE x \in cfg.buckets : TRUE>>
           \/ NeedsPut(want, to)
           \/ NeedsAcl(want, to)

(***************************************************************************)
(* The checks of the acceptance tests.  A check returns its error, "" when *)
(* it passes.                                                              *)
(***************************************************************************)
\* var obj s3.GetObjectOutput
ZeroObject ==
    [Body |-> <<>>, ETag |-> "", VersionId |-> <<>>, Grants |-> {},
     Metadata |-> <<>>, ContentType |-> "", StorageClass |-> <<>>]

\* [err, out]: out is the object the check stores into *obj
testAccCheckAWSS3BucketObjectExists(to, b, objs) ==
    IF to = <<>> THEN [err |-> "Not Found", out |-> <<>>]
    ELSE IF to[1].id = "" THEN [err |-> "No S3 Bucket Object ID is set", out |-> <<>>]
    ELSE LET r == GetObject(b, objs, to[1].bucket, to[1].key, <<to[1].etag>>)
         IN  IF r.err THEN [err |-> "S3Bucket Object error", out |-> <<>>]
             ELSE [err |-> "", out |-> r.out]

testAccCheckAWSS3BucketObjectBody(o, want) ==
    IF o.Body # want THEN "wrong result body" ELSE ""

\* the comparisons of the two checks below, exchanged
VersionIdsMustBeEqual(first, second) ==
    IF first.VersionId = second.VersionId THEN ""
    ELSE "Expected Version IDs to be equal, but they differ"

VersionIdsMustDiffer(first, second) ==
    IF first.VersionId # second.VersionId THEN ""
    ELSE "Expected Version IDs to differ, but they are equal"

testAccCheckAWSS3BucketObjectVersionIdDiffers(first, second) ==
    IF first.VersionId = <<>> THEN "Expected first object to have VersionId"
    ELSE IF second.VersionId = <<>> THEN "Expected second object to have VersionId"
    ELSE IF first.VersionId[1] = second.VersionId[1]
         THEN "Expected Version IDs to differ, but they are equal"
    ELSE ""

testAccCheckAWSS3BucketObjectVersionIdEquals(first, second) ==
    IF first.VersionId = <<>> THEN "Expected first object to have VersionId"
    ELSE IF second.VersionId = <<>> THEN "Expected second object to have VersionId"
    ELSE IF first.VersionId[1] # second.VersionId[1]
         THEN "Expected Version IDs to be equal, but they differ"
    ELSE ""

\* the place of a permission in the order of sort.Strings
PermRank(p) ==
    CASE p = "FULL_CONTROL" -> 1
      [] p = "READ"         -> 2
      [] p = "READ_ACP"     -> 3
      [] p = "WRITE"        -> 4
      [] OTHER              -> 5

\* sort.Strings of the permissions of the grants
RECURSIVE SortedPerms(_)
SortedPerms(grants) ==
    IF grants = {} THEN <<>>
    ELSE LET g == CHOOSE x \in grants :
                     \A y \in grants : PermRank(x.Permission) <= PermRank(y.Permission)
         IN  <<g.Permission>> \o SortedPerms(grants \ {g})

testAccCheckAWSS3BucketObjectAcl(to, b, objs, expectedPerms) ==
    LET r == HeadObject(b, objs, to[1].bucket, to[1].key, <<>>)
    IN  IF r.err THEN "GetObjectAcl error"
        ELSE IF SortedPerms(r.out[1].Grants) # expectedPerms
             THEN "Expected ACL permissions to differ"
        ELSE ""

testAccCheckAWSS3BucketObjectStorageClass(to, b, objs, expectedClass) ==
    LET r == HeadObject(b, objs, to[1].bucket, to[1].key, <<>>)
        storageClass == IF r.out[1].StorageClass # <<>> THEN r.out[1].StorageClass[1]
                        ELSE "STANDARD"
    IN  IF r.err THEN "HeadObject error"
        ELSE IF storageClass # expectedClass THEN "Expected Storage Class to differ"
        ELSE ""

\* the check below with the answer of HeadObject left out
DestroyCheckWithoutHeadObject(state, b, objs) ==
    IF state # <<>> THEN "AWS S3 Object still exists" ELSE ""

\* over the object of the state handed to it: HeadObject must fail
testAccCheckAWSS3BucketObjectDestroy(state, b, objs) ==
    IF state # <<>>
       /\ ~HeadObject(b, objs, state[1].bucket, state[1].key, <<state[1].etag>>).err
    THEN "AWS S3 Object still exists"
    ELSE ""

(***************************************************************************)
(* The test steps.  A step applies the configuration a fixture returns for *)
(* arguments drawn from the bounded sets below, and runs the checks.       *)
(***************************************************************************)
Files == {"tf-acc-s3-obj1", "tf-acc-s3-obj2"}
FileContents == {Lane8, Chicane}
ContentArgs == {Lane8, Chicane}
AclArgs == {"private", "public-read"}
BasicArgs == {<<"", "a key">>, <<"a name", "">>, <<"", "">>}
StorageClassArgs == {"REDUCED_REDUNDANCY", "GLACIER", "INTELLIGENT_TIERING", "DEEP_ARCHIVE"}
MetadataArgs ==
    { <<"key1", "value1", "key2", "value2">>,
      <<"key1", "value1updated", "key3", "value3">>,
      <<"key2", "value2", "key3", "value1">> }

Call(gen, args) == [gen |-> gen, args |-> args]

Calls ==
    {Call("Basic", a) : a \in BasicArgs}
    \cup {Call("Empty", <<>>)}
    \cup {Call("Source", <<f>>) : f \in Files}
    \cup {Call("withContentCharacteristics", <<"tf-acc-s3-obj1">>)}
    \cup {Call("Content", <<c>>) : c \in ContentArgs}
    \cup {Call("ContentBase64", <<Base64Encode(Lane8)>>)}
    \cup {Call(g, <<v, "tf-acc-s3-obj1">>) : g \in {"updateable", "updateableDeclared"},
                                             v \in BOOLEAN}
    \cup {Call("acl", <<c, a>>) : c \in ContentArgs, a \in AclArgs}
    \cup {Call("withMetadata", m) : m \in MetadataArgs}
    \cup {Call("storageClass", <<c>>) : c \in StorageClassArgs}
    \cup {Call("NonVersioned", <<"tf-acc-s3-obj1">>)}

\* the configuration of a call; "updateableDeclared" is the updateable
\* configuration with its region referring to the bucket it declares
ConfigOf(call) ==
    LET a == call.args
    IN  CASE call.gen = "Basic" ->
                testAccDigitalOceanSpacesBucketObjectConfigBasic(a[1], a[2])
          [] call.gen = "Empty" ->
                testAccDigitalOceanSpacesBucketObjectConfigEmpty
          [] call.gen = "Source" ->
                testAccDigitalOceanSpacesBucketObjectConfigSource(a[1])
          [] call.gen = "withContentCharacteristics" ->
                testAccDigitalOceanSpacesBucketObjectConfig_withContentCharacteristics(a[1])
          [] call.gen = "Content" ->
                testAccDigitalOceanSpacesBucketObjectConfigContent(a[1])
          [] call.gen = "ContentBase64" ->
                testAccDigitalOceanSpacesBucketObjectConfigContentBase64(a[1])
          [] call.gen = "updateable" ->
                testAccDigitalOceanSpacesBucketObjectConfig_updateable(a[1], a[2])
          [] call.gen = "updateableDeclared" ->
                WithDeclaredReferences(
                    testAccDigitalOceanSpacesBucketObjectConfig_updateable(a[1], a[2]))
          [] call.gen = "acl" ->
                testAccDigitalOceanSpacesBucketObjectConfig_acl(a[1], a[2])
          [] call.gen = "storageClass" ->
                testAccDigitalOceanSpacesBucketObjectConfig_storageClass(a[1])
          [] call.gen = "withMetadata" ->
                testAccDigitalOceanSpacesBucketObjectConfig_withMetadata(a[1], a[2], a[3], a[4])
          [] call.gen = "NonVersioned" ->
                testAccDigitalOceanSpacesBucketObjectConfig_NonVersioned(a[1])

NoCall == Call("", <<>>)

\* the steps of a test declare the same bucket resource
SameBucketResource(cfg, tb) ==
    IF tb = <<>> \/ cfg.buckets = {} THEN TRUE
    ELSE \E b \in cfg.buckets : b.name = tb[1].name

\* the configuration of the call is the updateable one
Updateable(call) == call.gen \in {"updateable", "updateableDeclared"}

ObjectKeys == {"test-key", "updateable-key"}

\* the parallel tests, the apply of the example and the test functions with
\* their temporary files while one test, the sweeper or the mapping is
\* looked at on its own
ParIdle ==
    /\ parPc = <<>>
    /\ parInt = <<>>
    /\ parBuckets = {}
    /\ parObjects = {}
    /\ exState = <<>>
    /\ exAttrs = <<>>
    /\ tmpTest = ""
    /\ tmpPc = 0
    /\ tmpDir = {}
    /\ tmpLocals = <<>>
    /\ tmpDefers = <<>>
    /\ tmpConfigs = {}

\* the sweeper variables while the sweeper does not run
SweepIdle ==
    /\ sweepPc = "idle"
    /\ sweepRegion = ""
    /\ sessionErr = FALSE
    /\ listErr = <<>>
    /\ spaces = <<>>
    /\ sweepI = 0
    /\ sweepRet = <<>>

\* the app spec variables while the object tests run
AppIdle ==
    /\ appPc = "idle"
    /\ appIn = NoVal
    /\ appFlat = NoVal
    /\ appCfg = NoVal
    /\ appSpec = NoVal

\* the object test variables while the app spec mapping runs
ObjectIdle ==
    /\ files = <<>>
    /\ bucket = [exists |-> FALSE, versioning |-> FALSE]
    /\ objects = [k \in ObjectKeys |-> NoObject]
    /\ tfBucket = <<>>
    /\ tfObj = <<>>
    /\ nextVersion = 1
    /\ lastCall = NoCall
    /\ lastErr = {}
    /\ obj = ZeroObject
    /\ prevObj = ZeroObject
    /\ testPc = "idle"
    /\ finalState = <<>>

\* the start of a test: the temporary files written by
\* testAccDigitalOceanSpacesBucketObjectCreateTempFile, nothing in the store
InitObject ==
    /\ AppIdle
    /\ SweepIdle
    /\ ParIdle
    /\ files \in [Files -> FileContents]
    /\ files["tf-acc-s3-obj1"] # files["tf-acc-s3-obj2"]
    /\ bucket = [exists |-> FALSE, versioning |-> FALSE]
    /\ objects = [k \in ObjectKeys |-> NoObject]
    /\ tfBucket = <<>>
    /\ tfObj = <<>>
    /\ nextVersion = 1
    /\ lastCall = NoCall
    /\ lastErr = {}
    /\ obj = ZeroObject
    /\ prevObj = ZeroObject
    /\ testPc = "steps"
    /\ finalState = <<>>

\* the Check of the step calls testAccCheckAWSS3BucketObjectExists: the steps
\* that archive the object do not
ChecksExists(call) == ~(call.gen = "storageClass" /\ call.args[1] \in ArchiveClasses)

\* one resource.TestStep: apply the configuration; when the apply succeeds,
\* testAccCheckAWSS3BucketObjectExists stores the object it gets.  A failing
\* apply changes neither the store nor the state, so the steps after it are
\* the steps of the state before it: the test goes to its destroy.
Step(call) ==
    /\ testPc = "steps"
    /\ nextVersion < MaxVersions
    /\ SameBucketResource(ConfigOf(call), tfBucket)
    /\ LET r == Apply(ConfigOf(call), files, bucket, objects, tfBucket, tfObj, nextVersion)
           e == IF ChecksExists(call)
                THEN testAccCheckAWSS3BucketObjectExists(r.tfObj, r.bucket, r.objects)
                ELSE [err |-> "", out |-> <<>>]
       IN  /\ lastCall' = call
           /\ lastErr' = r.err \cup (IF r.err = {} /\ e.err # "" THEN {e.err} ELSE {})
           /\ testPc' = IF r.err = {} /\ e.err = "" THEN "steps" ELSE "failed"
           /\ bucket' = r.bucket
           /\ objects' = r.objects
           /\ tfBucket' = r.tfBucket
           /\ tfObj' = r.tfObj
           /\ nextVersion' = r.nextVersion
           /\ IF r.err = {} /\ e.err = "" /\ ChecksExists(call)
              THEN obj' = e.out[1] /\ prevObj' = obj
              ELSE UNCHANGED <<obj, prevObj>>
    /\ UNCHANGED <<files, finalState, appVars, sweepVars, parVars, exVars, tmpVars>>

\* rewriteFile: ioutil.WriteFile(filename, data) on the source of the applied
\* updateable configuration, in the PreConfig of the step that applies it again
RewriteFile(f, data) ==
    /\ testPc = "steps"
    /\ tfObj # <<>>
    /\ Updateable(lastCall)
    /\ tfObj[1].source = f
    /\ files[f] # data
    /\ files' = [files EXCEPT ![f] = data]
    /\ UNCHANGED <<bucket, objects, tfBucket, tfObj, nextVersion, lastCall,
                   lastErr, obj, prevObj, testPc, finalState, appVars, sweepVars, parVars, exVars, tmpVars>>

\* the end of the test: terraform destroy, then CheckDestroy on the last state
Destroy ==
    /\ testPc \in {"steps", "failed"}
    /\ testPc' = "destroyed"
    /\ finalState' = tfObj
    /\ objects' = IF tfObj # <<>> THEN DeleteObject(objects, tfObj[1].key) ELSE objects
    /\ bucket' = [exists |-> FALSE, versioning |-> FALSE]
    /\ tfBucket' = <<>>
    /\ tfObj' = <<>>
    /\ UNCHANGED <<files, nextVersion, lastCall, lastErr, obj, prevObj, appVars, sweepVars, parVars, exVars, tmpVars>>

NextObject ==
    \/ \E call \in Calls : Step(call)
    \/ \E f \in Files, data \in FileContents : RewriteFile(f, data)
    \/ Destroy

SpecObject == InitObject /\ [][NextObject]_vars

(***************************************************************************)
(* The state machine of the app spec mapping.  A run either starts from an *)
(* API spec (flatten, read through the schema, expand) or from a           *)
(* configuration (expand, flatten, read through the schema).               *)
(***************************************************************************)
InitApp ==
    /\ ObjectIdle
    /\ SweepIdle
    /\ ParIdle
    /\ appFlat = NoVal
    /\ \/ /\ appPc = "spec0"
          /\ appIn \in ApiSpecs
          /\ appSpec = Ptr(appIn)
          /\ appCfg = NoVal
       \/ /\ appPc = "cfg0"
          /\ appIn \in AppConfigs
          /\ appCfg = appIn
          /\ appSpec = NoVal
       \* a nil *godo.AppSpec
       \/ /\ appPc = "nil0"
          /\ appIn = NilPtr
          /\ appSpec = NilPtr
          /\ appCfg = NoVal
       \* a configuration list that is empty or whose first element is nil
       \/ /\ appPc = "short0"
          /\ appIn \in {<<>>, <<NilElem>>}
          /\ appCfg = appIn
          /\ appSpec = NoVal

\* flattenAppSpec applied to the current API spec
Flatten ==
    /\ appPc \in {"spec0", "expanded", "nil0", "shortexp"}
    /\ appFlat' = flattenAppSpec(appSpec)
    /\ appPc' = CASE appPc = "spec0"    -> "flat"
                  [] appPc = "expanded" -> "flat2"
                  [] appPc = "nil0"     -> "nilflat"
                  [] appPc = "shortexp" -> "shortflat"
    /\ UNCHANGED <<appIn, appCfg, appSpec, objVars, sweepVars, parVars, exVars, tmpVars>>

\* the flattened value written to the "spec" attribute and read back
SetAndGet ==
    /\ appPc \in {"flat", "flat2"}
    /\ appCfg' = ReadSpec(appFlat)
    /\ appPc' = IF appPc = "flat" THEN "read" ELSE "done2"
    /\ UNCHANGED <<appIn, appFlat, appSpec, objVars, sweepVars, parVars, exVars, tmpVars>>

\* expandAppSpec applied to the current configuration
Expand ==
    /\ appPc \in {"cfg0", "read", "short0"}
    /\ appSpec' = expandAppSpec(appCfg)
    /\ appPc' = CASE appPc = "cfg0"   -> "expanded"
                  [] appPc = "read"   -> "done"
                  [] appPc = "short0" -> "shortexp"
    /\ UNCHANGED <<appIn, appFlat, appCfg, objVars, sweepVars, parVars, exVars, tmpVars>>

NextApp == Flatten \/ SetAndGet \/ Expand

SpecApp == InitApp /\ [][NextApp]_vars

(***************************************************************************)
(* Claims about the app spec mapping.                                      *)
(***************************************************************************)
\* two lists agree: as sets of elements when asSets, else element by element
SameList(xs, ys, asSets) ==
    IF asSets THEN Range(xs.elems) = Range(ys.elems) ELSE xs.elems = ys.elems

\* two components agree on every field; a nil list is not told from an
\* empty one, and the Envs are compared as sets when asSets
SameComponent(x, y, asSets) ==
    /\ DOMAIN x = DOMAIN y
    /\ \A f \in DOMAIN x :
          CASE f = "Envs"   -> SameList(x[f], y[f], asSets)
            [] f = "Routes" -> SameList(x[f], y[f], FALSE)
            [] OTHER        -> x[f] = y[f]

SameComponents(xs, ys, asSets) ==
    /\ Len(xs.elems) = Len(ys.elems)
    /\ \A i \in 1..Len(xs.elems) : SameComponent(xs.elems[i], ys.elems[i], asSets)

SameSpec(s, t, asSets) ==
    /\ s.Name = t.Name
    /\ s.Region = t.Region
    /\ SameList(s.Domains, t.Domains, asSets)
    /\ SameComponents(s.Services, t.Services, asSets)
    /\ SameComponents(s.StaticSites, t.StaticSites, asSets)
    /\ SameComponents(s.Workers, t.Workers, asSets)
    /\ SameList(s.Databases, t.Databases, FALSE)

\* C1 as stated: expandAppSpec applied to the flattened API spec s returns
\* an AppSpec equal to s field for field (every list element by element,
\* not even telling a nil list from an empty one).
C1_RoundTripIsIdentity ==
    appPc = "done" => appSpec # NilPtr /\ SameSpec(appSpec[1], appIn, FALSE)

\* C1 as amended: expandAppSpec applied to the flattened API spec s returns
\* an AppSpec that agrees with s on the name, the region and every field of
\* every component in order, where the domains and each component's envs
\* are compared as sets (their order and multiplicity are not kept); a nil
\* list is not told from an empty one.
C1_RoundTripUpToSets ==
    appPc = "done" => appSpec # NilPtr /\ SameSpec(appSpec[1], appIn, TRUE)

\* C1 witness: the round trip has run on a spec with two services (one with
\* a github source, a health check and two envs, one with a git source and
\* two routes), a static site, a worker, two databases and two domains.
C1_Witness ==
    /\ appPc = "done"
    /\ Len(appIn.Domains.elems) = 2
    /\ Len(appIn.Services.elems) = 2
    /\ appIn.Services.elems[1].GitHub # NilPtr
    /\ Len(appIn.Services.elems[2].Routes.elems) = 2
    /\ Len(appIn.StaticSites.elems) = 1
    /\ Len(appIn.Workers.elems) = 1
    /\ Len(appIn.Databases.elems) = 2

\* C2 as stated: for a schema-complete configuration c, the flattened
\* expansion of c, read back through the schema, assigns to every attribute
\* of c the value c had.
C2_ConfigRoundTripIsIdentity ==
    appPc = "done2" => appCfg = appIn

\* the configurations that set a routes block on a worker
WorkerHasRoutes(c) ==
    \E i \in 1..Len(c[1].worker) : c[1].worker[i].routes # <<>>

\* the configurations of C2 that do not set routes on a worker do come back
\* unchanged
ConfigRoundTripWithoutWorkerRoutes ==
    (appPc = "done2" /\ ~WorkerHasRoutes(appIn)) => appCfg = appIn


(***************************************************************************)
(* Claims about the spaces bucket object.  A claim about an apply is over  *)
(* the arguments of the step that applied and the store and state after it.*)
(***************************************************************************)
\* a step applied its configuration without an error
StepApplied ==
    /\ testPc = "steps"
    /\ testPc' = "steps"
    /\ files' = files
    /\ lastCall' # NoCall

\* a step ended with an error
StepFailed == testPc = "steps" /\ testPc' = "failed"

\* what the arguments of a call say the object is
ExpectedBody(call, fs) ==
    LET a == call.args
    IN  CASE call.gen \in {"Source", "withContentCharacteristics", "NonVersioned"} -> fs[a[1]]
          [] call.gen \in {"updateable", "updateableDeclared"} -> fs[a[2]]
          [] call.gen \in {"Content", "acl"} -> a[1]
          [] call.gen = "storageClass" -> SomeBucketContent
          [] call.gen = "ContentBase64" -> Base64Decode(a[1]).bytes
          [] OTHER -> <<>>

ExpectedAcl(call) == IF call.gen = "acl" THEN call.args[2] ELSE "private"

ExpectedPerms(acl) ==
    IF acl = "public-read" THEN <<"FULL_CONTROL", "READ">> ELSE <<"FULL_CONTROL">>

ExpectedMetadata(call) ==
    LET a == call.args
    IN  IF call.gen = "withMetadata" THEN (a[1] :> a[2]) @@ (a[3] :> a[4]) ELSE <<>>

SourceChanged ==
    /\ StepApplied
    /\ tfObj # <<>>
    /\ tfObj[1].source # ""
    /\ lastCall'.gen = "Source"
    /\ lastCall.gen = "Source"
    /\ lastCall'.args[1] # tfObj[1].source
    /\ files[lastCall'.args[1]] # obj.Body

Rewritten ==
    /\ testPc = "steps"
    /\ tfObj # <<>>
    /\ tfObj[1].source # ""
    /\ files[tfObj[1].source] # obj.Body

AclOnlyChanged ==
    /\ StepApplied
    /\ tfObj # <<>>
    /\ bucket.versioning
    /\ lastCall.gen = "acl"
    /\ lastCall'.gen = "acl"
    /\ lastCall'.args[1] = lastCall.args[1]
    /\ lastCall'.args[2] # lastCall.args[2]

ExpectedClass(call) == IF call.gen = "storageClass" THEN call.args[1] ELSE "STANDARD"

DeclaresVersioning(call) ==
    \/ call.gen = "acl"
    \/ Updateable(call) /\ call.args[1]

\* the step creates the object or uploads it again
Uploads == NeedsPut(Desired(ConfigOf(lastCall'), files), tfObj)

EnvScopes == {"UNSET", "RUN_TIME", "BUILD_TIME", "RUN_AND_BUILD_TIME"}
EnvTypes == {"GENERAL", "SECRET"}

\* the ValidateFunc of the attributes the block sets
EnvAccepted(raw) ==
    /\ "scope" \in DOMAIN raw => raw.scope \in EnvScopes
    /\ "type" \in DOMAIN raw => raw.type \in EnvTypes

\* env blocks as written: every attribute is optional; "run_time" and
\* "PUBLIC" are values the schema does not list
RawEnvs ==
    { (("key" :> "K1") @@ v @@ s @@ ty) :
        v  \in {<<>>, ("value" :> "v1")},
        s  \in {<<>>} \cup {("scope" :> x) : x \in EnvScopes \cup {"run_time"}},
        ty \in {<<>>} \cup {("type" :> x) : x \in EnvTypes \cup {"PUBLIC"}} }

\* the env blocks of a component as written
InitEnv ==
    /\ ObjectIdle
    /\ SweepIdle
    /\ ParIdle
    /\ appPc = "env0"
    /\ appIn \in SeqsUpTo(RawEnvs, MaxEnvs)
    /\ appFlat = NoVal
    /\ appCfg = NoVal
    /\ appSpec = NoVal

\* the schema validates the blocks; the accepted ones are read with their
\* defaults into the set, and the set is listed
ValidateEnvs ==
    /\ appPc = "env0"
    /\ IF \A i \in 1..Len(appIn) : EnvAccepted(appIn[i])
       THEN /\ appPc' = "env1"
            /\ appCfg' = EnvSetList({ReadMap(appIn[i], appSpecEnvSchema) : i \in 1..Len(appIn)})
       ELSE /\ appPc' = "rejected"
            /\ appCfg' = appCfg
    /\ UNCHANGED <<appIn, appFlat, appSpec, objVars, sweepVars, parVars, exVars, tmpVars>>

ExpandEnvs ==
    /\ appPc = "env1"
    /\ appSpec' = expandAppEnvs(appCfg)
    /\ appPc' = "env2"
    /\ UNCHANGED <<appIn, appFlat, appCfg, objVars, sweepVars, parVars, exVars, tmpVars>>

NextEnv == ValidateEnvs \/ ExpandEnvs

SpecEnv == InitEnv /\ [][NextEnv]_vars

\* the definition a block gives: what it sets, and the defaults for the rest
DefinitionOf(raw) ==
    [Key   |-> IF "key" \in DOMAIN raw THEN raw.key ELSE "",
     Value |-> IF "value" \in DOMAIN raw THEN raw.value ELSE "",
     Scope |-> IF "scope" \in DOMAIN raw THEN raw.scope ELSE "RUN_AND_BUILD_TIME",
     Type  |-> IF "type" \in DOMAIN raw THEN raw.type ELSE "GENERAL"]

\* C14: the schema accepts an env block only with a listed scope and type,
\* scope defaults to RUN_AND_BUILD_TIME and type to GENERAL, and every
\* definition expandAppEnvs gives has Scope and Type in those sets and the Key
\* and Value of a block of the configuration.
C14_EnvScopeAndType ==
    /\ appPc = "rejected" =>
          \E i \in 1..Len(appIn) :
              \/ "scope" \in DOMAIN appIn[i] /\ appIn[i].scope \notin EnvScopes
              \/ "type" \in DOMAIN appIn[i] /\ appIn[i].type \notin EnvTypes
    /\ appPc \in {"env1", "env2"} =>
          \A i \in 1..Len(appCfg) :
              /\ appCfg[i].scope \in EnvScopes
              /\ appCfg[i].type \in EnvTypes
    /\ appPc = "env2" =>
          /\ ~appSpec.isNil
          /\ Range(appSpec.elems) = {DefinitionOf(appIn[i]) : i \in 1..Len(appIn)}
          /\ \A i \in 1..Len(appSpec.elems) :
                /\ appSpec.elems[i].Scope \in EnvScopes
                /\ appSpec.elems[i].Type \in EnvTypes

C14_Witness ==
    /\ appPc = "env2"
    /\ Len(appIn) = 2
    /\ DOMAIN appIn[1] = {"key"}
    /\ DefinitionOf(appIn[2]) =
          [Key |-> "K1", Value |-> "v1", Scope |-> "UNSET", Type |-> "SECRET"]
    /\ [Key |-> "K1", Value |-> "", Scope |-> "RUN_AND_BUILD_TIME", Type |-> "GENERAL"]
          \in Range(appSpec.elems)
    /\ Len(appSpec.elems) = 2


(***************************************************************************)
(* The sweeper testSweepS3BucketObjects.  A bucket name is the sequence of *)
(* its characters.                                                         *)
(***************************************************************************)
\* the prefixes with "tf-test" cut to "tf-te"
prefixesCut ==
    << <<"m", "y", "b", "u", "c", "k", "e", "t", ".">>,
       <<"m", "y", "l", "o", "g", "s", ".">>,
       <<"t", "f", "-", "a", "c", "c">>,
       <<"t", "f", "-", "o", "b", "j", "e", "c", "t", "-", "t", "e", "s", "t">>,
       <<"t", "f", "-", "t", "e">>,
       <<"t", "f", "-", "e", "m", "r", "-", "b", "o", "o", "t", "s", "t", "r", "a", "p">> >>

prefixes ==
    << <<"m", "y", "b", "u", "c", "k", "e", "t", ".">>,
       <<"m", "y", "l", "o", "g", "s", ".">>,
       <<"t", "f", "-", "a", "c", "c">>,
       <<"t", "f", "-", "o", "b", "j", "e", "c", "t", "-", "t", "e", "s", "t">>,
       <<"t", "f", "-", "t", "e", "s", "t">>,
       <<"t", "f", "-", "e", "m", "r", "-", "b", "o", "o", "t", "s", "t", "r", "a", "p">> >>

\* strings.HasPrefix
HasPrefix(s, prefix) ==
    /\ Len(s) >= Len(prefix)
    /\ SubSeq(s, 1, Len(prefix)) = prefix

\* the loop over prefixes
hasPrefix(bucketName) == \E i \in 1..Len(prefixes) : HasPrefix(bucketName, prefixes[i])

\* testS3BucketRegion with the error of GetBucketLocation dropped
testS3BucketRegionWithoutError(b) ==
    [err |-> FALSE, region |-> IF b.loc = <<>> THEN "nyc3" ELSE b.loc[1]]

\* [err, region]; b.loc is output.LocationConstraint
testS3BucketRegion(b) ==
    IF b.locErr THEN [err |-> TRUE, region |-> ""]
    ELSE IF b.loc = <<>> THEN [err |-> FALSE, region |-> "nyc3"]
    ELSE [err |-> FALSE, region |-> b.loc[1]]

\* strings.Contains on the messages of the model
Contains(s, sub) ==
    \/ sub = ""
    \/ s = sub
    \/ s = "The action X is not valid for this web service" /\ sub = "is not valid"

isAWSErr(err, code, message) ==
    /\ err # <<>>
    /\ err[1].Code = code
    /\ Contains(err[1].Message, message)

testSweepSkipSweepError(err) ==
    \/ isAWSErr(err, "RequestError", "send request failed")
    \/ isAWSErr(err, "UnsupportedOperation", "")
    \/ isAWSErr(err, "InvalidParameterValue", "not permitted in this API version for your account")
    \/ isAWSErr(err, "InvalidParameterValue", "Access Denied to API Version")
    \/ isAWSErr(err, "AccessDeniedException", "")
    \/ isAWSErr(err, "BadRequestException", "not supported")
    \/ isAWSErr(err, "InvalidAction", "is not valid")

\* the objects every bucket holds before the sweep
InitialObjects == {"o1", "o2"}

\* deleteAllS3ObjectVersions: the objects left; on an error any part of them
ObjectsLeft(b) == IF b.delErr THEN SUBSET b.objects ELSE {{}}

Regions == {"nyc3", "ams3"}

BucketNames ==
    { <<"t", "f", "-", "a", "c", "c", "1">>,
      <<"m", "y", "l", "o", "g", "s", ".", "a">>,
      <<"t", "f", "-", "t", "e", "s", "1">>,
      <<"x", "t", "f", "-", "a", "c", "c">> }

BucketPool ==
    { [name |-> n, locErr |-> l[1], loc |-> l[2], delErr |-> d, objects |-> InitialObjects] :
        n \in BucketNames,
        l \in {<<TRUE, <<>>>>, <<FALSE, <<>>>>, <<FALSE, <<"nyc3">>>>, <<FALSE, <<"ams3">>>>},
        d \in BOOLEAN }

AwsErr(code, message) == <<[Code |-> code, Message |-> message]>>

ListErrs ==
    { <<>>,
      AwsErr("RequestError", "send request failed"),
      AwsErr("InvalidAction", "The action X is not valid for this web service"),
      AwsErr("AccessDeniedException", ""),
      AwsErr("AccessDenied", ""),
      AwsErr("InvalidParameterValue", "Access Denied") }

InitSweep ==
    /\ AppIdle
    /\ ObjectIdle
    /\ ParIdle
    /\ sweepPc = "start"
    /\ sweepRegion \in Regions
    /\ sessionErr \in BOOLEAN
    /\ listErr \in ListErrs
    /\ spaces \in (IF listErr = <<>> THEN SeqsUpTo(BucketPool, MaxBuckets) ELSE {<<>>})
    /\ sweepI = 0
    /\ sweepRet = <<>>

\* the session, ListBuckets and the returns before the loop
SweepList ==
    /\ sweepPc = "start"
    /\ IF sessionErr
       THEN sweepPc' = "fatal" /\ UNCHANGED <<sweepRet, sweepI>>
       ELSE IF testSweepSkipSweepError(listErr)
       THEN sweepPc' = "returned" /\ sweepRet' = <<"nil">> /\ UNCHANGED sweepI
       ELSE IF listErr # <<>>
       THEN /\ sweepPc' = "returned"
            /\ sweepRet' = <<"error listing S3 Bucket Objects">>
            /\ UNCHANGED sweepI
       ELSE IF Len(spaces) = 0
       THEN sweepPc' = "returned" /\ sweepRet' = <<"nil">> /\ UNCHANGED sweepI
       ELSE sweepPc' = "loop" /\ sweepI' = 1 /\ UNCHANGED sweepRet
    /\ UNCHANGED <<sweepRegion, sessionErr, listErr, spaces, appVars, objVars, parVars, exVars, tmpVars>>

\* one turn of the loop over output.Buckets; after the last bucket return nil
SweepBucket ==
    /\ sweepPc = "loop"
    /\ LET b == spaces[sweepI]
           r == testS3BucketRegion(b)
           continue ==
               /\ spaces' = spaces
               /\ IF sweepI < Len(spaces)
                  THEN sweepI' = sweepI + 1 /\ UNCHANGED <<sweepPc, sweepRet>>
                  ELSE sweepPc' = "returned" /\ sweepRet' = <<"nil">> /\ UNCHANGED sweepI
       IN  IF ~hasPrefix(b.name) THEN continue
           ELSE IF r.err THEN continue
           ELSE IF r.region # sweepRegion THEN continue
           ELSE \E left \in ObjectsLeft(b) :
                   /\ spaces' = [spaces EXCEPT ![sweepI].objects = left]
                   /\ IF b.delErr
                      THEN /\ sweepPc' = "returned"
                           /\ sweepRet' = <<"error listing S3 Bucket (...) Objects">>
                           /\ UNCHANGED sweepI
                      ELSE IF sweepI < Len(spaces)
                      THEN sweepI' = sweepI + 1 /\ UNCHANGED <<sweepPc, sweepRet>>
                      ELSE sweepPc' = "returned" /\ sweepRet' = <<"nil">> /\ UNCHANGED sweepI
    /\ UNCHANGED <<sweepRegion, sessionErr, listErr, appVars, objVars, parVars, exVars, tmpVars>>

NextSweep == SweepList \/ SweepBucket

SpecSweep == InitSweep /\ [][NextSweep]_vars

\* the name starts with one of the six prefixes of the claim
StartsWithListed(name) ==
    \E q \in { <<"m", "y", "b", "u", "c", "k", "e", "t", ".">>,
               <<"m", "y", "l", "o", "g", "s", ".">>,
               <<"t", "f", "-", "a", "c", "c">>,
               <<"t", "f", "-", "o", "b", "j", "e", "c", "t", "-", "t", "e", "s", "t">>,
               <<"t", "f", "-", "t", "e", "s", "t">>,
               <<"t", "f", "-", "e", "m", "r", "-", "b", "o", "o", "t", "s", "t", "r", "a", "p">> } :
        Len(name) >= Len(q) /\ \A k \in 1..Len(q) : name[k] = q[k]

\* the location of a bucket, nyc3 when it has no location constraint
LocationOf(b) == IF b.loc = <<>> THEN "nyc3" ELSE b.loc[1]

Touched(b) == b.objects # InitialObjects

\* C15: the sweeper deletes objects only from buckets whose name starts with
\* a listed prefix and whose location is the region argument, nyc3 for a
\* bucket without a location constraint; every other bucket keeps its objects.
C15_SweepsOnlyTestBuckets ==
    \A i \in 1..Len(spaces) :
        Touched(spaces[i]) =>
            /\ StartsWithListed(spaces[i].name)
            /\ ~spaces[i].locErr
            /\ LocationOf(spaces[i]) = sweepRegion

C15_Witness ==
    /\ sweepPc = "returned"
    /\ sweepRegion = "nyc3"
    /\ Len(spaces) = 2
    /\ spaces[1].name = <<"t", "f", "-", "t", "e", "s", "1">>
    /\ spaces[1].loc = <<"nyc3">>
    /\ ~spaces[1].locErr
    /\ spaces[1].objects = InitialObjects
    /\ spaces[2].name = <<"t", "f", "-", "a", "c", "c", "1">>
    /\ spaces[2].loc = <<>>
    /\ spaces[2].objects = {}


\* the sweep deletes the objects of the bucket when it comes to it
Eligible(b) ==
    /\ StartsWithListed(b.name)
    /\ ~b.locErr
    /\ LocationOf(b) = sweepRegion

NilReturned == sweepPc = "returned" /\ sweepRet = <<"nil">>

DeleteErrorReturned ==
    sweepPc = "returned" /\ sweepRet = <<"error listing S3 Bucket (...) Objects">>

ExpandedStates == {"expanded", "flat2", "shortexp", "shortflat"}

\* the states in which appFlat is what flattenAppSpec returned for appSpec
FlattenedStates == {"flat", "read", "nilflat", "shortflat", "flat2"}

\* an AppSpec without name, region, domains and components
IsEmptySpec(s) ==
    /\ s.Name = ""
    /\ s.Region = ""
    /\ \A f \in {"Domains", "Services", "StaticSites", "Workers", "Databases"} :
          Len(s[f].elems) = 0

\* C17: expandAppSpec returns an empty, non-nil AppSpec when the
\* configuration list is empty or its first element is nil; flattenAppSpec
\* returns an empty list for a nil spec and a list of exactly one map for a
\* non-nil spec, so the flattened spec block never has more than one element.
C17_EmptyConfigAndNilSpec ==
    /\ (appPc \in ExpandedStates /\ (Len(appCfg) = 0 \/ appCfg[1] = NilElem))
          => appSpec # NilPtr /\ IsEmptySpec(appSpec[1])
    /\ appPc \in FlattenedStates
          => /\ Len(appFlat) <= 1
             /\ appSpec = NilPtr => Len(appFlat) = 0
             /\ appSpec # NilPtr => Len(appFlat) = 1 /\ "name" \in DOMAIN appFlat[1]

\* C17 witness: a configuration list whose first element is nil has been
\* expanded, and the spec it gave has been flattened to a list of one map.
C17_Witness ==
    /\ appPc = "shortflat"
    /\ appIn = <<NilElem>>
    /\ appSpec # NilPtr
    /\ Len(appFlat) = 1

(***************************************************************************)
(* The list functions on their own: expand and flatten of the services,    *)
(* static sites, workers, databases and routes, each applied to a list     *)
(* drawn from a bounded set (the empty list and, for flatten, the nil and  *)
(* the empty slice included).                                              *)
(***************************************************************************)
MaxList == 2

Kinds == {"service", "static_site", "worker", "database", "routes"}

RoutePaths == {"/", "/a"}

ListCfgPool(kind) ==
    CASE kind = "service" ->
           CfgServicePool \cup
           { CfgService("s3", <<>>, CfgGit, <<[path |-> "/a"], [path |-> "/b"]>>,
                        <<>>, {CfgEnvB}, 2) }
      [] kind = "static_site" ->
           { CfgStaticSite,
             [CfgStaticSite EXCEPT !.name = "bare", !.github = <<>>, !.routes = <<>>],
             [CfgStaticSite EXCEPT !.name = "git", !.github = <<>>, !.git = CfgGit,
                                   !.routes = <<[path |-> "/"], [path |-> "/a"]>>] }
      [] kind = "worker" ->
           { CfgWorker(<<>>),
             CfgWorker(<<[path |-> "/w"]>>),
             [CfgWorker(<<>>) EXCEPT !.name = "bare", !.git = <<>>],
             [CfgWorker(<<>>) EXCEPT !.name = "hub", !.git = <<>>, !.github = CfgGitHub] }
      [] kind = "database" ->
           { CfgDatabase("db", "PG"), CfgDatabase("db2", "MYSQL"),
             CfgDatabase("cache", "REDIS") }
      [] kind = "routes" -> {[path |-> p] : p \in RoutePaths}

ListApiPool(kind) ==
    CASE kind = "service" ->
           ApiServicePool \cup
           { ApiService("s4", NilPtr, NilPtr, Slice(<<>>), NilPtr, Slice(<<>>), 0) }
      [] kind = "static_site" ->
           { ApiStaticSite,
             [ApiStaticSite EXCEPT !.Name = "bare", !.GitHub = NilPtr,
                                   !.Routes = NilSlice],
             [ApiStaticSite EXCEPT !.Name = "git", !.GitHub = NilPtr, !.Git = ApiGit,
                                   !.Routes = Slice(<<[Path |-> "/"], [Path |-> "/a"]>>)],
             [ApiStaticSite EXCEPT !.Name = "none", !.Routes = Slice(<<>>)] }
      [] kind = "worker" ->
           { ApiWorker,
             [ApiWorker EXCEPT !.Name = "bare", !.Git = NilPtr],
             [ApiWorker EXCEPT !.Name = "hub", !.Git = NilPtr, !.GitHub = ApiGitHub] }
      [] kind = "database" ->
           { ApiDatabase("db", "PG"), ApiDatabase("db2", "MYSQL"),
             ApiDatabase("cache", "REDIS") }
      [] kind = "routes" -> {[Path |-> p] : p \in RoutePaths}

ExpandOf(kind, config) ==
    CASE kind = "service"     -> expandAppSpecServices(config)
      [] kind = "static_site" -> expandAppSpecStaticSites(config)
      [] kind = "worker"      -> expandAppSpecWorkers(config)
      [] kind = "database"    -> expandAppSpecDatabases(config)
      [] kind = "routes"      -> expandAppRoutes(config)

FlattenOf(kind, slice) ==
    CASE kind = "service"     -> flattenAppSpecServices(slice)
      [] kind = "static_site" -> flattenAppSpecStaticSites(slice)
      [] kind = "worker"      -> flattenAppSpecWorkers(slice)
      [] kind = "database"    -> flattenAppSpecDatabases(slice)
      [] kind = "routes"      -> flattenAppRoutes(slice)

InitList ==
    /\ ObjectIdle
    /\ SweepIdle
    /\ ParIdle
    /\ appPc = "list0"
    /\ appFlat = NoVal
    /\ \E kind \in Kinds :
          \/ /\ appIn = [kind |-> kind, dir |-> "expand"]
             /\ appCfg \in SeqsUpTo(ListCfgPool(kind), MaxList)
             /\ appSpec = NoVal
          \/ /\ appIn = [kind |-> kind, dir |-> "flatten"]
             /\ appSpec \in SlicesUpTo(ListApiPool(kind), MaxList)
             /\ appCfg = NoVal

\* the expand function of the kind applied to the configuration list
ExpandList ==
    /\ appPc = "list0"
    /\ appIn.dir = "expand"
    /\ appSpec' = ExpandOf(appIn.kind, appCfg)
    /\ appPc' = "list1"
    /\ UNCHANGED <<appIn, appFlat, appCfg, objVars, sweepVars, parVars, exVars, tmpVars>>

\* the flatten function of the kind applied to the slice of the API spec
FlattenList ==
    /\ appPc = "list0"
    /\ appIn.dir = "flatten"
    /\ appFlat' = FlattenOf(appIn.kind, appSpec)
    /\ appPc' = "list1"
    /\ UNCHANGED <<appIn, appCfg, appSpec, objVars, sweepVars, parVars, exVars, tmpVars>>

NextList == ExpandList \/ FlattenList

SpecList == InitList /\ [][NextList]_vars

ListExpanded == appPc = "list1" /\ appIn.dir = "expand"

ListFlattened == appPc = "list1" /\ appIn.dir = "flatten"

\* the attribute that names an element of the kind
NameOfCfg(kind, c) == IF kind = "routes" THEN c.path ELSE c.name

NameOfApi(kind, s) == IF kind = "routes" THEN s.Path ELSE s.Name

\* C18: the expand and flatten functions for services, static sites,
\* workers, databases and routes preserve length and order: the output has
\* the length of the input, its i-th element is what the function gives for
\* the i-th input element alone and carries that element's name (path), and
\* expand gives a non-nil slice for every list, the empty one included.
C18_LengthAndOrderPreserved ==
    /\ ListExpanded =>
          /\ ~appSpec.isNil
          /\ Len(appSpec.elems) = Len(appCfg)
          /\ \A i \in 1..Len(appCfg) :
                /\ appSpec.elems[i] = ExpandOf(appIn.kind, <<appCfg[i]>>).elems[1]
                /\ NameOfApi(appIn.kind, appSpec.elems[i])
                      = NameOfCfg(appIn.kind, appCfg[i])
    /\ ListFlattened =>
          /\ Len(appFlat) = Len(appSpec.elems)
          /\ \A i \in 1..Len(appSpec.elems) :
                /\ appFlat[i] = FlattenOf(appIn.kind, Slice(<<appSpec.elems[i]>>))[1]
                /\ NameOfCfg(appIn.kind, appFlat[i])
                      = NameOfApi(appIn.kind, appSpec.elems[i])

\* C18 witness: two different databases of an API spec have been flattened
\* to two maps.
C18_Witness ==
    /\ ListFlattened
    /\ appIn.kind = "database"
    /\ Len(appSpec.elems) = 2
    /\ appSpec.elems[1] # appSpec.elems[2]
    /\ Len(appFlat) = 2

\* the optional single blocks of a component kind: the attribute of the
\* configuration and the pointer field of the API spec
OptionalBlocks(kind) ==
    CASE kind = "service" ->
           {<<"github", "GitHub">>, <<"git", "Git">>, <<"health_check", "HealthCheck">>}
      [] kind \in {"static_site", "worker"} ->
           {<<"github", "GitHub">>, <<"git", "Git">>}
      [] OTHER -> {}

\* the component kinds whose API spec has a Routes slice
KindHasRoutes(kind) == kind \in {"service", "static_site"}

\* the attribute a field of a block is flattened to
AttributeOf(field) ==
    CASE field = "Repo"         -> "repo"
      [] field = "Branch"       -> "branch"
      [] field = "DeployOnPush" -> "deploy_on_push"
      [] field = "RepoCloneURL" -> "repo_clone_url"
      [] field = "Path"         -> "path"

\* the map m has exactly the attributes of the fields of v, with v's values
CarriesEveryField(m, v) ==
    /\ DOMAIN m = {AttributeOf(f) : f \in DOMAIN v}
    /\ \A f \in DOMAIN v : m[AttributeOf(f)] = v[f]

\* expand leaves the pointer (the Routes slice) nil exactly when the list of
\* the configuration is empty
ExpandKeepsOptional ==
    ListExpanded =>
        \A i \in 1..Len(appCfg) :
            /\ \A b \in OptionalBlocks(appIn.kind) :
                  (appSpec.elems[i][b[2]] = NilPtr) <=> (Len(appCfg[i][b[1]]) = 0)
            /\ KindHasRoutes(appIn.kind) =>
                  (appSpec.elems[i].Routes.isNil <=> (Len(appCfg[i].routes) = 0))

\* flatten emits the empty list exactly when the pointer is nil, and a list
\* of one map carrying every field otherwise
FlattenKeepsOptionalPointers ==
    ListFlattened =>
        \A i \in 1..Len(appSpec.elems) :
            \A b \in OptionalBlocks(appIn.kind) :
                LET ptr  == appSpec.elems[i][b[2]]
                    list == appFlat[i][b[1]]
                IN  /\ (Len(list) = 0) <=> (ptr = NilPtr)
                    /\ ptr # NilPtr => Len(list) = 1 /\ CarriesEveryField(list[1], ptr[1])

ComponentKeys ==
    {<<"service", "Services">>, <<"static_site", "StaticSites">>,
     <<"worker", "Workers">>, <<"database", "Databases">>}

\* C20: the map flattenAppSpec produces for a non-nil spec always has the
\* keys name, region and domains, has the key service, static_site, worker
\* or database exactly when that component list of the spec is non-empty,
\* and has no other key; a component kind whose list is empty is absent
\* from the map, not present with an empty list.
C20_ComponentKeysOnlyWhenNonEmpty ==
    (appPc \in FlattenedStates /\ appSpec # NilPtr) =>
        /\ Len(appFlat) = 1
        /\ {"name", "region", "domains"} \subseteq DOMAIN appFlat[1]
        /\ \A k \in ComponentKeys :
              /\ (k[1] \in DOMAIN appFlat[1]) <=> (Len(appSpec[1][k[2]].elems) > 0)
              /\ k[1] \in DOMAIN appFlat[1] => Len(appFlat[1][k[1]]) > 0
        /\ DOMAIN appFlat[1] \subseteq
              {"name", "region", "domains"} \cup {k[1] : k \in ComponentKeys}

\* C20 witness: a spec whose service list is empty but not nil, with a
\* worker and no static site or database, has been flattened: the map has
\* the key worker and none of service, static_site and database.
C20_Witness ==
    /\ appPc = "flat"
    /\ appSpec # NilPtr
    /\ ~appSpec[1].Services.isNil
    /\ Len(appSpec[1].Services.elems) = 0
    /\ Len(appSpec[1].Workers.elems) = 1
    /\ DOMAIN appFlat[1] = {"name", "region", "domains", "worker"}

(***************************************************************************)
(* The set functions on their own: expand and flatten of the domains and   *)
(* of the envs, each applied to a list drawn from a bounded set, with      *)
(* repeated elements and every order.                                      *)
(***************************************************************************)
MaxSet == 3

SetKinds == {"domains", "env"}

CfgEnvC == [key |-> "K1", value |-> "v2", scope |-> "BUILD_TIME", type |-> "GENERAL"]

\* the elements of a configuration list of the kind
SetCfgPool(kind) ==
    IF kind = "domains" THEN {"a.com", "b.com", "c.com"}
    ELSE {CfgEnvA, CfgEnvB, CfgEnvC}

\* the elements of a slice of the API spec of the kind
SetApiPool(kind) ==
    IF kind = "domains" THEN {[Domain |-> n] : n \in {"a.com", "b.com", "c.com"}}
    ELSE {EnvA, EnvB, EnvC}

InitSet ==
    /\ ObjectIdle
    /\ SweepIdle
    /\ ParIdle
    /\ appPc = "set0"
    /\ appFlat = NoVal
    /\ \E kind \in SetKinds :
          \/ /\ appIn = [kind |-> kind, dir |-> "expand"]
             /\ appCfg \in SeqsUpTo(SetCfgPool(kind), MaxSet)
             /\ appSpec = NoVal
          \/ /\ appIn = [kind |-> kind, dir |-> "flatten"]
             /\ appSpec \in SlicesUpTo(SetApiPool(kind), MaxSet)
             /\ appCfg = NoVal

\* expandAppDomainSpec or expandAppEnvs applied to the configuration list
ExpandSet ==
    /\ appPc = "set0"
    /\ appIn.dir = "expand"
    /\ appSpec' = IF appIn.kind = "domains" THEN expandAppDomainSpec(appCfg)
                  ELSE expandAppEnvs(appCfg)
    /\ appPc' = "set1"
    /\ UNCHANGED <<appIn, appFlat, appCfg, objVars, sweepVars, parVars, exVars, tmpVars>>

\* flattenAppDomainSpec or flattenAppEnvs applied to the slice
FlattenSet ==
    /\ appPc = "set0"
    /\ appIn.dir = "flatten"
    /\ appFlat' = IF appIn.kind = "domains" THEN flattenAppDomainSpec(appSpec)
                  ELSE flattenAppEnvs(appSpec)
    /\ appPc' = "set1"
    /\ UNCHANGED <<appIn, appCfg, appSpec, objVars, sweepVars, parVars, exVars, tmpVars>>

NextSet == ExpandSet \/ FlattenSet

SpecSet == InitSet /\ [][NextSet]_vars

SetExpanded == appPc = "set1" /\ appIn.dir = "expand"

SetFlattened == appPc = "set1" /\ appIn.dir = "flatten"

\* the element of the set that an element of the slice is flattened to
FlatElement(kind, e) ==
    IF kind = "domains" THEN e.Domain
    ELSE [key |-> e.Key, value |-> e.Value, scope |-> e.Scope, type |-> e.Type]

\* the element of the slice that an element of the list is expanded to
ExpandedElement(kind, c) ==
    IF kind = "domains" THEN [Domain |-> c]
    ELSE [Key |-> c.key, Value |-> c.value, Scope |-> c.scope, Type |-> c.type]

\* Set.List() of a flattened set of the kind
ListOfSet(kind, S) == IF kind = "domains" THEN DomainSetList(S) ELSE EnvSetList(S)

\* the permutations of 1..n
Perms(n) == {p \in [1..n -> 1..n] : \A i, j \in 1..n : i # j => p[i] # p[j]}

\* flatten of the kind
FlattenSetOf(kind, slice) ==
    IF kind = "domains" THEN flattenAppDomainSpec(slice) ELSE flattenAppEnvs(slice)

ComponentKinds == {"service", "static_site", "worker"}

\* the schema of a component kind
SchemaOf(kind) ==
    CASE kind = "service"     -> appSpecServicesSchema
      [] kind = "static_site" -> appSpecStaticSiteSchema
      [] kind = "worker"      -> appSpecWorkerSchema

\* the field of the API spec an attribute of a component is expanded to
FieldOf(attribute) ==
    CASE attribute = "name"               -> "Name"
      [] attribute = "git"                -> "Git"
      [] attribute = "github"             -> "GitHub"
      [] attribute = "dockerfile_path"    -> "DockerfilePath"
      [] attribute = "build_command"      -> "BuildCommand"
      [] attribute = "env"                -> "Envs"
      [] attribute = "routes"             -> "Routes"
      [] attribute = "source_dir"         -> "SourceDir"
      [] attribute = "environment_slug"   -> "EnvironmentSlug"
      [] attribute = "run_command"        -> "RunCommand"
      [] attribute = "http_port"          -> "HTTPPort"
      [] attribute = "instance_size_slug" -> "InstanceSizeSlug"
      [] attribute = "instance_count"     -> "InstanceCount"
      [] attribute = "health_check"       -> "HealthCheck"
      [] attribute = "output_dir"         -> "OutputDir"
      [] attribute = "index_document"     -> "IndexDocument"
      [] attribute = "error_document"     -> "ErrorDocument"

\* C22: every attribute the schema of a component kind declares is copied
\* by the kind's expand function into a field of the API spec and written
\* back by the kind's flatten function as a key of the map; a routes block
\* configured on a worker is in the expanded worker, path by path.
C22_EveryDeclaredAttributeIsMapped ==
    /\ (ListExpanded /\ appIn.kind \in ComponentKinds) =>
          \A i \in 1..Len(appCfg) :
              /\ \A a \in DOMAIN SchemaOf(appIn.kind) :
                    FieldOf(a) \in DOMAIN appSpec.elems[i]
              /\ Len(appCfg[i].routes) > 0 =>
                    /\ "Routes" \in DOMAIN appSpec.elems[i]
                    /\ appSpec.elems[i].Routes.elems
                          = [j \in 1..Len(appCfg[i].routes) |->
                                [Path |-> appCfg[i].routes[j].path]]
    /\ (ListFlattened /\ appIn.kind \in ComponentKinds) =>
          \A i \in 1..Len(appFlat) :
              DOMAIN SchemaOf(appIn.kind) \subseteq DOMAIN appFlat[i]

\* the attributes of services and static sites are all mapped in both
\* directions
ServiceAndSiteAttributesMapped ==
    appIn.kind \in {"service", "static_site"} => C22_EveryDeclaredAttributeIsMapped

\* a worker with a routes block has been expanded
WorkerRoutesExpanded ==
    /\ ListExpanded
    /\ appIn.kind = "worker"
    /\ Len(appCfg) = 1
    /\ appCfg[1].routes = <<[path |-> "/w"]>>

(***************************************************************************)
(* Runtime failures of expand.  A type assertion x.(T) panics when x is    *)
(* nil: the element of a block written with no attributes, or the value of *)
(* a key the map does not have.                                            *)
(***************************************************************************)
\* m[k].(T) panics for one of the keys: the map does not have it
MissingKey(m, keys) == \E k \in keys : k \notin DOMAIN m

\* config[0].(map[string]interface{}) of expandAppGitHubSourceSpec,
\* expandAppGitSourceSpec and expandAppHealthCheck, called when len > 0
BlockPanics(config) == IF Len(config) > 0 THEN config[1] = NilElem ELSE FALSE

\* rawRoute.(map[string]interface{}) of expandAppRoutes, called when len > 0
RoutesPanic(config) == \E i \in 1..Len(config) : config[i] = NilElem

\* the type assertions of one iteration of expandAppSpecServices,
\* expandAppSpecStaticSites, expandAppSpecWorkers or expandAppSpecDatabases
ElementPanics(kind, raw) ==
    IF raw = NilElem THEN TRUE
    ELSE CASE kind = "service" ->
                IF MissingKey(raw, DOMAIN appSpecServicesSchema) THEN TRUE
                ELSE \/ BlockPanics(raw.github)
                     \/ BlockPanics(raw.git)
                     \/ RoutesPanic(raw.routes)
                     \/ BlockPanics(raw.health_check)
           [] kind = "static_site" ->
                IF MissingKey(raw, DOMAIN appSpecStaticSiteSchema) THEN TRUE
                ELSE \/ BlockPanics(raw.github)
                     \/ BlockPanics(raw.git)
                     \/ RoutesPanic(raw.routes)
           [] kind = "worker" ->
                IF MissingKey(raw, DOMAIN appSpecWorkerSchema \ {"routes"}) THEN TRUE
                ELSE \/ BlockPanics(raw.github)
                     \/ BlockPanics(raw.git)
           [] kind = "database" -> MissingKey(raw, DOMAIN appSpecDatabaseSchema)

ListPanics(kind, config) == \E i \in 1..Len(config) : ElementPanics(kind, config[i])

\* the type assertions of expandAppSpec and of the functions it calls
expandAppSpecPanics(config) ==
    IF Len(config) = 0 THEN FALSE
    ELSE IF config[1] = NilElem THEN FALSE
    ELSE IF MissingKey(config[1], DOMAIN appSpecSchema) THEN TRUE
    ELSE \/ ListPanics("service", config[1].service)
         \/ ListPanics("static_site", config[1].static_site)
         \/ ListPanics("worker", config[1].worker)
         \/ ListPanics("database", config[1].database)

\* services as the schema accepts them: the blocks git, github, routes and
\* health_check written with attributes, left out, or written empty
RawServicePool ==
    CfgServicePool \cup
    { [CfgService("g", <<>>, <<>>, <<>>, <<>>, {}, 0) EXCEPT ![b] = <<NilElem>>] :
         b \in {"github", "git", "routes", "health_check"} }

\* configurations as the schema accepts them; without is the optional
\* component list the spec map does not have
RawConfigs ==
    { <<[k \in DOMAIN appSpecSchema \ without |->
           CASE k = "name"     -> "app"
             [] k = "region"   -> "nyc"
             [] k = "domains"  -> {}
             [] k = "service"  -> s
             [] k = "database" -> d
             [] OTHER          -> <<>>]>> :
        s \in SeqsUpTo(RawServicePool, MaxServices),
        d \in {<<>>, <<NilElem>>, <<CfgDatabase("db", "PG")>>},
        without \in {{}, {"worker"}, {"database"}, {"static_site"}} }

InitRaw ==
    /\ ObjectIdle
    /\ SweepIdle
    /\ ParIdle
    /\ appPc = "raw0"
    /\ appIn \in RawConfigs \cup {<<>>, <<NilElem>>}
    /\ appCfg = appIn
    /\ appFlat = NoVal
    /\ appSpec = NoVal

\* a call of expandAppSpec: it returns the spec or panics
ExpandRaw ==
    /\ appPc = "raw0"
    /\ appSpec' = IF expandAppSpecPanics(appCfg) THEN NoVal
                  ELSE expandAppSpec(appCfg)
    /\ appPc' = IF expandAppSpecPanics(appCfg) THEN "panicked" ELSE "raw1"
    /\ UNCHANGED <<appIn, appFlat, appCfg, objVars, sweepVars, parVars, exVars, tmpVars>>

NextRaw == ExpandRaw

SpecRaw == InitRaw /\ [][NextRaw]_vars

\* C23: for every configuration the schema accepts, expandAppSpec returns
\* a non-nil AppSpec and does not fail at run time, also for a git, github
\* or health_check block written with no attributes and for a spec map
\* without one of the optional component lists.
C23_ExpandNeverPanics ==
    /\ appPc # "panicked"
    /\ appPc = "raw1" => appSpec # NilPtr

\* the configurations whose blocks all carry attributes and whose spec map
\* has every key
EveryBlockWritten(config) ==
    IF Len(config) = 0 THEN TRUE
    ELSE IF config[1] = NilElem THEN TRUE
    ELSE IF MissingKey(config[1], DOMAIN appSpecSchema) THEN FALSE
    ELSE /\ \A i \in 1..Len(config[1].service) :
               \A b \in {"github", "git", "routes", "health_check"} :
                   config[1].service[i][b] # <<NilElem>>
         /\ config[1].database # <<NilElem>>

\* expandAppSpec does return a spec for the configurations whose blocks all
\* carry attributes and whose spec map has every key
ExpandReturnsForWrittenBlocks ==
    (appPc \in {"raw1", "panicked"} /\ EveryBlockWritten(appIn))
        => appPc = "raw1" /\ appSpec # NilPtr

\* expandAppSpec has been called with a service whose github block has no
\* attributes
EmptyGitHubBlockExpanded ==
    /\ appPc = "panicked"
    /\ Len(appIn) = 1
    /\ "worker" \in DOMAIN appIn[1]
    /\ "database" \in DOMAIN appIn[1]
    /\ Len(appIn[1].service) = 1
    /\ appIn[1].service[1].github = <<NilElem>>

(***************************************************************************)
(* Claims about the values flatten writes and the limits of the schema.    *)
(***************************************************************************)
\* the list attributes declared with MaxItems: 1
MaxItemsOne == {"git", "github", "routes", "health_check"}

\* the engines the validation of a database's engine lists
DatabaseEngines == {"UNSET", "MYSQL", "PG", "REDIS"}

\* C24: every value flatten writes satisfies the schema of its attribute:
\* the git, github, health_check and routes lists of a flattened component
\* have at most one element, and the engine of a flattened database, when
\* not empty, is one of UNSET, MYSQL, PG and REDIS.
C24_FlattenedValuesFitTheSchema ==
    /\ (ListFlattened /\ appIn.kind \in ComponentKinds) =>
          \A i \in 1..Len(appFlat) :
              \A a \in MaxItemsOne \cap DOMAIN appFlat[i] : Len(appFlat[i][a]) <= 1
    /\ (ListFlattened /\ appIn.kind = "database") =>
          \A i \in 1..Len(appFlat) :
              appFlat[i].engine # "" => appFlat[i].engine \in DatabaseEngines

\* the flattened values other than routes do fit the schema
FlattenedValuesFitExceptRoutes ==
    /\ (ListFlattened /\ appIn.kind \in ComponentKinds) =>
          \A i \in 1..Len(appFlat) :
              \A a \in (MaxItemsOne \ {"routes"}) \cap DOMAIN appFlat[i] :
                  Len(appFlat[i][a]) <= 1
    /\ (ListFlattened /\ appIn.kind = "database") =>
          \A i \in 1..Len(appFlat) :
              appFlat[i].engine # "" => appFlat[i].engine \in DatabaseEngines

\* a service with two routes has been flattened
TwoRoutesFlattened ==
    /\ ListFlattened
    /\ appIn.kind = "service"
    /\ Len(appSpec.elems) = 1
    /\ Len(appSpec.elems[1].Routes.elems) = 2

(***************************************************************************)
(* Tests run in parallel (resource.ParallelTest), each with the            *)
(* configuration of testAccDigitalOceanSpacesBucketObjectConfigEmpty for   *)
(* its own random integer, and testSweepS3BucketObjects run alongside.     *)
(* The steps of the tests and of the sweep interleave in every order.      *)
(***************************************************************************)
MaxTests == 2

MaxRandInt == 3

TestIds == 1..MaxTests

\* "tf-object-test-bucket-%d"
ParBucketName(randInt) ==
    <<"t", "f", "-", "o", "b", "j", "e", "c", "t", "-", "t", "e", "s", "t", "-",
      "b", "u", "c", "k", "e", "t", "-">>
    \o <<(<<"0", "1", "2", "3", "4", "5", "6", "7", "8", "9">>)[randInt + 1]>>

\* the bucket of a test
BucketOf(t) == ParBucketName(parInt[t])

\* the tests have drawn their integers; the sweep is about to be called
InitPar ==
    /\ AppIdle
    /\ ObjectIdle
    /\ parPc = [t \in TestIds |-> "start"]
    /\ parInt \in {f \in [TestIds -> 1..MaxRandInt] :
                      \A t, u \in TestIds : t # u => f[t] # f[u]}
    /\ parBuckets = {}
    /\ parObjects = {}
    /\ exState = <<>>
    /\ exAttrs = <<>>
    /\ tmpTest = ""
    /\ tmpPc = 0
    /\ tmpDir = {}
    /\ tmpLocals = <<>>
    /\ tmpDefers = <<>>
    /\ tmpConfigs = {}
    /\ sweepPc = "start"
    /\ sweepRegion \in Regions
    /\ sessionErr = FALSE
    /\ listErr = <<>>
    /\ spaces = <<>>
    /\ sweepI = 0
    /\ sweepRet = <<>>

\* the step of the test applies its configuration: the bucket and the object
\* test-key in it are created
ParApply(t) ==
    /\ parPc[t] = "start"
    /\ parPc' = [parPc EXCEPT ![t] = "applied"]
    /\ parBuckets' = parBuckets \cup {BucketOf(t)}
    /\ parObjects' = parObjects \cup {BucketOf(t)}
    /\ UNCHANGED <<parInt, appVars, objVars, sweepVars, exVars, tmpVars>>

\* the check of the step: testAccCheckAWSS3BucketObjectExists reads the
\* object of the test's bucket
ParCheck(t) ==
    /\ parPc[t] = "applied"
    /\ parPc' = [parPc EXCEPT ![t] = IF BucketOf(t) \in parObjects
                                     THEN "checked" ELSE "failed"]
    /\ UNCHANGED <<parInt, parBuckets, parObjects, appVars, objVars, sweepVars, exVars, tmpVars>>

\* the end of the test: the object and the bucket of the test are destroyed
ParDestroy(t) ==
    /\ parPc[t] \in {"checked", "failed"}
    /\ parPc' = [parPc EXCEPT ![t] = IF parPc[t] = "checked" THEN "passed" ELSE "lost"]
    /\ parBuckets' = parBuckets \ {BucketOf(t)}
    /\ parObjects' = parObjects \ {BucketOf(t)}
    /\ UNCHANGED <<parInt, appVars, objVars, sweepVars, exVars, tmpVars>>

\* ListBuckets of the sweep: the buckets of the account at that moment
ParSweepList ==
    /\ sweepPc = "start"
    /\ \E l \in [1..Cardinality(parBuckets) -> parBuckets] :
          /\ \A i, j \in DOMAIN l : i # j => l[i] # l[j]
          /\ spaces' = [i \in DOMAIN l |-> [name |-> l[i]]]
    /\ IF Cardinality(parBuckets) = 0
       THEN sweepPc' = "returned" /\ sweepRet' = <<"nil">> /\ UNCHANGED sweepI
       ELSE sweepPc' = "loop" /\ sweepI' = 1 /\ UNCHANGED sweepRet
    /\ UNCHANGED <<sweepRegion, sessionErr, listErr, appVars, objVars, parVars, exVars, tmpVars>>

\* one turn of the loop of the sweep over the listed buckets
ParSweepBucket ==
    /\ sweepPc = "loop"
    /\ LET bucketName == spaces[sweepI].name
           r == testS3BucketRegion(
                    [locErr |-> bucketName \notin parBuckets,
                     loc    |-> <<testAccDigitalOceanSpacesBucketObject_TestRegion>>])
       IN  IF ~hasPrefix(bucketName) THEN UNCHANGED parObjects
           ELSE IF r.err THEN UNCHANGED parObjects
           ELSE IF r.region # sweepRegion THEN UNCHANGED parObjects
           ELSE parObjects' = parObjects \ {bucketName}
    /\ IF sweepI < Len(spaces)
       THEN sweepI' = sweepI + 1 /\ UNCHANGED <<sweepPc, sweepRet>>
       ELSE sweepPc' = "returned" /\ sweepRet' = <<"nil">> /\ UNCHANGED sweepI
    /\ UNCHANGED <<sweepRegion, sessionErr, listErr, spaces, parPc, parInt,
                   parBuckets, appVars, objVars, exVars, tmpVars>>

NextPar ==
    \/ \E t \in TestIds : ParApply(t) \/ ParCheck(t) \/ ParDestroy(t)
    \/ ParSweepList
    \/ ParSweepBucket

SpecPar == InitPar /\ [][NextPar]_vars

\* the test has applied its configuration and has not destroyed it
Running(t) == parPc[t] \in {"applied", "checked"}

\* the test is running before and after the step and its object is deleted
\* by the step
LosesObject(t) ==
    /\ Running(t)
    /\ parPc'[t] \in {"applied", "checked"}
    /\ BucketOf(t) \in parObjects
    /\ BucketOf(t) \notin parObjects'

\* the step is a test's: the objects it writes or deletes are those of the
\* bucket of a test that took the step
OwnBucketOnly ==
    (sweepPc' = sweepPc /\ sweepI' = sweepI) =>
        \A n \in (parObjects \ parObjects') \cup (parObjects' \ parObjects) :
            \E t \in TestIds : n = BucketOf(t) /\ parPc'[t] # parPc[t]

ExLit(v) == [lit |-> v]

\* <resource>.<attr>
ExRef(resource, attr) == [resource |-> resource, attr |-> attr]

Droplet == "digitalocean_droplet.mywebserver"
Domain == "digitalocean_domain.mywebserver"
RecordA == "digitalocean_record.mywebserver_ipv4_dns"
RecordAAAA == "digitalocean_record.mywebserver_ipv6_dns"

\* the domain with its address written out instead of taken from the droplet
DomainWithLiteralAddress ==
    [name       |-> ExLit("www.mywebserver.com"),
     ip_address |-> ExLit("192.0.2.1")]

digitalocean_droplet_mywebserver ==
    [size               |-> ExLit("s-1vcpu-1gb"),
     private_networking |-> ExLit(TRUE),
     backups            |-> ExLit(TRUE),
     ipv6               |-> ExLit(TRUE),
     name               |-> ExLit("mywebserver-ams3")]

digitalocean_domain_mywebserver ==
    [name       |-> ExLit("www.mywebserver.com"),
     ip_address |-> ExRef(Droplet, "ipv4_address")]

digitalocean_record_mywebserver_ipv4_dns ==
    [domain |-> ExRef(Domain, "name"),
     type   |-> ExLit("A"),
     name   |-> ExLit("mywebserver"),
     value  |-> ExRef(Droplet, "ipv4_address")]

digitalocean_record_mywebserver_ipv6_dns ==
    [domain |-> ExRef(Domain, "name"),
     type   |-> ExLit("AAAA"),
     name   |-> ExLit("mywebserver"),
     value  |-> ExRef(Droplet, "ipv6_address")]

\* main.tf: the resources by their addresses
MainTf ==
    (Droplet :> digitalocean_droplet_mywebserver)
    @@ (Domain :> digitalocean_domain_mywebserver)
    @@ (RecordA :> digitalocean_record_mywebserver_ipv4_dns)
    @@ (RecordAAAA :> digitalocean_record_mywebserver_ipv6_dns)

\* the resources the configuration of r refers to
ExReferences(r) ==
    {MainTf[r][a].resource : a \in {b \in DOMAIN MainTf[r] : "resource" \in DOMAIN MainTf[r][b]}}

\* the value of an expression, a reference read from the state
ExValue(e, attrs) == IF "lit" \in DOMAIN e THEN e.lit ELSE attrs[e.resource][e.attr]

\* the addresses the API may give a new droplet
Ipv4Addresses == {"203.0.113.1", "203.0.113.2", "203.0.113.3"}
Ipv6Addresses == {"2001:db8::1", "2001:db8::2"}

\* the attributes the API computes for a new resource
ExComputed(r) ==
    IF r = Droplet
    THEN {[ipv4_address |-> a, ipv6_address |-> b] : a \in Ipv4Addresses, b \in Ipv6Addresses}
    ELSE {<<>>}

InitExample ==
    /\ AppIdle
    /\ ObjectIdle
    /\ SweepIdle
    /\ parPc = <<>>
    /\ parInt = <<>>
    /\ parBuckets = {}
    /\ parObjects = {}
    /\ exState = [r \in DOMAIN MainTf |-> "pending"]
    /\ exAttrs = [r \in DOMAIN MainTf |-> <<>>]
    /\ tmpTest = ""
    /\ tmpPc = 0
    /\ tmpDir = {}
    /\ tmpLocals = <<>>
    /\ tmpDefers = <<>>
    /\ tmpConfigs = {}

\* the engine starts to create r: every resource r refers to is created,
\* and the attributes of r are evaluated against the state
StartCreate(r) ==
    /\ exState[r] = "pending"
    /\ \A d \in ExReferences(r) : exState[d] = "created"
    /\ exState' = [exState EXCEPT ![r] = "creating"]
    /\ exAttrs' = [exAttrs EXCEPT
                      ![r] = [a \in DOMAIN MainTf[r] |-> ExValue(MainTf[r][a], exAttrs)]]
    /\ UNCHANGED <<appVars, objVars, sweepVars, parVars, tmpVars>>

\* the resources with a provisioner block
HasProvisioner(r) == r = Droplet

\* the create call ends: the resource has its computed attributes and is
\* created, or its provisioner is run next, or the call failed
FinishCreate(r) ==
    /\ exState[r] = "creating"
    /\ \/ \E c \in ExComputed(r) :
             /\ exState' = [exState EXCEPT
                               ![r] = IF HasProvisioner(r) THEN "provisioning"
                                      ELSE "created"]
             /\ exAttrs' = [exAttrs EXCEPT ![r] = c @@ exAttrs[r]]
       \/ /\ exState' = [exState EXCEPT ![r] = "failed"]
          /\ exAttrs' = [exAttrs EXCEPT ![r] = <<>>]
    /\ UNCHANGED <<appVars, objVars, sweepVars, parVars, tmpVars>>

\* remote-exec over ssh to self.ipv4_address ends: the resource is created,
\* or the provisioner failed and so did the resource
Provision(r) ==
    /\ exState[r] = "provisioning"
    /\ \E ok \in BOOLEAN :
          exState' = [exState EXCEPT ![r] = IF ok THEN "created" ELSE "failed"]
    /\ UNCHANGED <<exAttrs, appVars, objVars, sweepVars, parVars, tmpVars>>

NextExample ==
    \E r \in DOMAIN MainTf : StartCreate(r) \/ FinishCreate(r) \/ Provision(r)

SpecExample == InitExample /\ [][NextExample]_vars

\* the creation of r has begun
Begun(r) == exState[r] \in {"creating", "provisioning", "created"}

Created(r) == exState[r] = "created"

\* C26: in the droplet example a resource is created only after the
\* resources it references: the domain after the droplet, whose IPv4 address
\* it takes, and each of the A and AAAA records after the domain and the
\* droplet, with the droplet's IPv4 and IPv6 address as its value; neither
\* record refers to the other, so the two have no order between them.
C26_CreatedAfterWhatItReferences ==
    exState # <<>> =>
        /\ Begun(Domain) =>
              /\ Created(Droplet)
              /\ exAttrs[Domain].ip_address = exAttrs[Droplet].ipv4_address
        /\ \A r \in {RecordA, RecordAAAA} :
              Begun(r) => /\ Created(Domain)
                          /\ Created(Droplet)
                          /\ exAttrs[r].domain = "www.mywebserver.com"
        /\ Begun(RecordA) => exAttrs[RecordA].value = exAttrs[Droplet].ipv4_address
        /\ Begun(RecordAAAA) => exAttrs[RecordAAAA].value = exAttrs[Droplet].ipv6_address
        /\ RecordA \notin ExReferences(RecordAAAA)
        /\ RecordAAAA \notin ExReferences(RecordA)

\* C26 witness: the AAAA record is created while the A record has not been
\* begun.
C26_Witness ==
    /\ exState # <<>>
    /\ Created(RecordAAAA)
    /\ exState[RecordA] = "pending"

\* the A record is created while the AAAA record has not been begun
RecordAFirst ==
    /\ exState # <<>>
    /\ Created(RecordA)
    /\ exState[RecordAAAA] = "pending"

\* ---------------------------------------------------------------------
\* The test functions of the bucket object, their temporary files and the
\* configurations they generate
\* ---------------------------------------------------------------------

\* the names ioutil.TempFile can give a file of pattern "tf-acc-s3-obj"
TempNames == {"tf-acc-s3-obj1", "tf-acc-s3-obj2", "tf-acc-s3-obj3"}

CreateStmt(v) == [op |-> "create", var |-> v]
DeferStmt(v) == [op |-> "defer", var |-> v]
RunStmt == [op |-> "run", var |-> ""]

\* the statements of each test function up to resource.ParallelTest
TestAccDigitalOceanSpacesBucketObject_source ==
    <<CreateStmt("source"), DeferStmt("source"), RunStmt>>

TestAccDigitalOceanSpacesBucketObject_withContentCharacteristics ==
    <<CreateStmt("source"), DeferStmt("source"), RunStmt>>

TestAccDigitalOceanSpacesBucketObject_NonVersioned ==
    <<CreateStmt("sourceInitial"), DeferStmt("sourceInitial"), RunStmt>>

TestAccDigitalOceanSpacesBucketObject_updates ==
    <<CreateStmt("sourceInitial"), DeferStmt("sourceInitial"),
      CreateStmt("sourceModified"), DeferStmt("sourceInitial"), RunStmt>>

TestAccDigitalOceanSpacesBucketObject_updateSameFile ==
    <<CreateStmt("filename"), DeferStmt("filename"), RunStmt>>

TestAccDigitalOceanSpacesBucketObject_updatesWithVersioning ==
    <<CreateStmt("sourceInitial"), DeferStmt("sourceInitial"),
      CreateStmt("sourceModified"), DeferStmt("sourceInitial"), RunStmt>>

\* the test functions that create no file, with the generators they call
FilelessTests ==
    [noNameNoKey   |-> {"Basic"},
     empty         |-> {"Empty"},
     content       |-> {"Content"},
     contentBase64 |-> {"ContentBase64"},
     acl           |-> {"acl"},
     metadata      |-> {"withMetadata", "Empty"},
     storageClass  |-> {"Content", "storageClass"}]

FileTests ==
    [source                     |-> TestAccDigitalOceanSpacesBucketObject_source,
     withContentCharacteristics |->
         TestAccDigitalOceanSpacesBucketObject_withContentCharacteristics,
     NonVersioned               |-> TestAccDigitalOceanSpacesBucketObject_NonVersioned,
     updates                    |-> TestAccDigitalOceanSpacesBucketObject_updates,
     updateSameFile             |-> TestAccDigitalOceanSpacesBucketObject_updateSameFile,
     updatesWithVersioning      |->
         TestAccDigitalOceanSpacesBucketObject_updatesWithVersioning]

TestNames == DOMAIN FilelessTests \cup DOMAIN FileTests

StatementsOf(test) ==
    IF test \in DOMAIN FileTests THEN FileTests[test] ELSE <<RunStmt>>

\* the calls of the generators in the steps of a test function
StepCalls(test, locals) ==
    CASE test = "source" -> {Call("Source", <<locals["source"]>>)}
      [] test = "withContentCharacteristics" ->
            {Call("withContentCharacteristics", <<locals["source"]>>)}
      [] test = "NonVersioned" -> {Call("NonVersioned", <<locals["sourceInitial"]>>)}
      [] test = "updates" ->
            {Call("updateable", <<FALSE, locals["sourceInitial"]>>),
             Call("updateable", <<FALSE, locals["sourceModified"]>>)}
      [] test = "updateSameFile" ->
            {Call("updateable", <<FALSE, locals["filename"]>>)}
      [] test = "updatesWithVersioning" ->
            {Call("updateable", <<TRUE, locals["sourceInitial"]>>),
             Call("updateable", <<TRUE, locals["sourceModified"]>>)}
      [] OTHER -> {c \in Calls : c.gen \in FilelessTests[test]}

\* the statement the test function is at; past the last one it returns
AtReturn(test) == Len(StatementsOf(test)) + 1
Returned(test) == Len(StatementsOf(test)) + 2

TmpAt(op) ==
    /\ tmpPc \in 1..Len(StatementsOf(tmpTest))
    /\ StatementsOf(tmpTest)[tmpPc].op = op

InitTemp ==
    /\ AppIdle
    /\ ObjectIdle
    /\ SweepIdle
    /\ parPc = <<>>
    /\ parInt = <<>>
    /\ parBuckets = {}
    /\ parObjects = {}
    /\ exState = <<>>
    /\ exAttrs = <<>>
    /\ tmpTest \in TestNames
    /\ tmpPc = 1
    /\ tmpDir = {}
    /\ tmpLocals = <<>>
    /\ tmpDefers = <<>>
    /\ tmpConfigs = {}

\* testAccDigitalOceanSpacesBucketObjectCreateTempFile: the file is created
\* and written and its name returned
testAccDigitalOceanSpacesBucketObjectCreateTempFile ==
    /\ TmpAt("create")
    /\ \E name \in TempNames \ tmpDir :
          /\ tmpDir' = tmpDir \cup {name}
          /\ tmpLocals' = (StatementsOf(tmpTest)[tmpPc].var :> name) @@ tmpLocals
    /\ tmpPc' = tmpPc + 1
    /\ UNCHANGED <<tmpTest, tmpDefers, tmpConfigs>>
    /\ UNCHANGED <<appVars, objVars, sweepVars, parVars, exVars>>

\* testAccDigitalOceanSpacesBucketObjectCreateTempFile: ioutil.TempFile
\* fails, or ioutil.WriteFile fails and the file is removed; t.Fatal ends the
\* test function
CreateTempFileFatal ==
    /\ TmpAt("create")
    /\ tmpPc' = AtReturn(tmpTest)
    /\ UNCHANGED <<tmpTest, tmpDir, tmpLocals, tmpDefers, tmpConfigs>>
    /\ UNCHANGED <<appVars, objVars, sweepVars, parVars, exVars>>

\* defer os.Remove(v): the argument is evaluated at the defer statement
DeferRemove ==
    /\ TmpAt("defer")
    /\ tmpDefers' = <<tmpLocals[StatementsOf(tmpTest)[tmpPc].var]>> \o tmpDefers
    /\ tmpPc' = tmpPc + 1
    /\ UNCHANGED <<tmpTest, tmpDir, tmpLocals, tmpConfigs>>
    /\ UNCHANGED <<appVars, objVars, sweepVars, parVars, exVars>>

\* resource.ParallelTest with the test case of the function: the
\* configurations of its steps are generated and the steps run
ParallelTest ==
    /\ TmpAt("run")
    /\ tmpConfigs' = {ConfigOf(c) : c \in StepCalls(tmpTest, tmpLocals)}
    /\ tmpPc' = AtReturn(tmpTest)
    /\ UNCHANGED <<tmpTest, tmpDir, tmpLocals, tmpDefers>>
    /\ UNCHANGED <<appVars, objVars, sweepVars, parVars, exVars>>

\* rewriteFile of the updateSameFile test fails to write: the file is removed
\* and t.Fatal ends the test function
RewriteFileFatal ==
    /\ TmpAt("run")
    /\ tmpTest = "updateSameFile"
    /\ tmpConfigs' = {ConfigOf(c) : c \in StepCalls(tmpTest, tmpLocals)}
    /\ tmpDir' = tmpDir \ {tmpLocals["filename"]}
    /\ tmpPc' = AtReturn(tmpTest)
    /\ UNCHANGED <<tmpTest, tmpLocals, tmpDefers>>
    /\ UNCHANGED <<appVars, objVars, sweepVars, parVars, exVars>>

\* the test function returns: its deferred calls run
TestReturn ==
    /\ tmpTest # ""
    /\ tmpPc = AtReturn(tmpTest)
    /\ tmpDir' = tmpDir \ Range(tmpDefers)
    /\ tmpDefers' = <<>>
    /\ tmpPc' = Returned(tmpTest)
    /\ UNCHANGED <<tmpTest, tmpLocals, tmpConfigs>>
    /\ UNCHANGED <<appVars, objVars, sweepVars, parVars, exVars>>

NextTemp ==
    \/ testAccDigitalOceanSpacesBucketObjectCreateTempFile
    \/ CreateTempFileFatal
    \/ DeferRemove
    \/ ParallelTest
    \/ RewriteFileFatal
    \/ TestReturn

SpecTemp == InitTemp /\ [][NextTemp]_vars

\* the test function has returned
TestReturned == tmpTest # "" /\ tmpPc = Returned(tmpTest)

\* every reference of every generated configuration is declared in it
SelfConsistent == \A cfg \in tmpConfigs : UndeclaredReferences(cfg) = {}

\* the test functions whose fixtures refer to a bucket they do not declare
UndeclaredTests == {"NonVersioned", "updates", "updateSameFile", "updatesWithVersioning"}

\* the test functions that defer the removal of one file twice
TwiceDeferredTests == {"updates", "updatesWithVersioning"}

\* C27: every resource reference inside a generated test configuration names
\* a resource declared in that same configuration, and every temporary file
\* a test created is removed when that test returns
C27_FixturesConsistentAndFilesRemoved ==
    /\ SelfConsistent
    /\ TestReturned => tmpDir = {}

\* the tests outside the two groups generate self-consistent configurations
\* and leave no file behind
C27_OtherTestsConsistentAndClean ==
    /\ tmpTest \notin UndeclaredTests => SelfConsistent
    /\ tmpTest \notin TwiceDeferredTests /\ TestReturned => tmpDir = {}

\* the updates test has returned and the file of sourceModified is left
ModifiedFileLeft ==
    /\ tmpTest = "updates"
    /\ TestReturned
    /\ tmpConfigs # {}
    /\ tmpDir = {tmpLocals["sourceModified"]}

\* a test that removes its file has run its steps and returned
SourceFileRemoved ==
    /\ tmpTest = "source"
    /\ TestReturned
    /\ tmpConfigs # {}
    /\ tmpDir = {}

====
